---- MODULE Spec2Model ----
(***************************************************************************)
(* Model of the decide-then-call message pipeline of gensx_mcp             *)
(* (processMessage -> Chatbot -> EvaluateQuery / ExecuteMCPCall /          *)
(* FormatResponse / GenerateDirectResponse over callOpenAI).               *)
(*                                                                         *)
(* Texts are sequences of tokens: a template literal prefix${x} is the     *)
(* concatenation of the prefix token and the tokens of x.  JavaScript      *)
(* values handed between the stages are records (see JObj, JStr, ...).     *)
(***************************************************************************)
EXTENDS Integers, Sequences, FiniteSets, TLC

\* ------------------------------------------------------------------ bounds
\* largest number of tool servers in the configuration document
MaxTools == 2
\* longest free-form model answer, in tokens, that the plain-text calls return
MaxAnswerLen == 1
\* longest response text of the exhaustive part of the parsing inputs
MaxTextLen == 5
\* submits of the chat form in one session
MaxSubmits == 2

\* --------------------------------------------------------- program constants
\* resultText.substring(0, 100)
RawPrefixCap == 100

\* ------------------------------------------------------------ state
VARIABLES
  pc,            \* where the run of processMessage stands
  apiKey,        \* the credential handed to processMessage ("null" if absent)
  latestMessage, \* the message handed to processMessage
  chatHistory,   \* the chatHistory array handed to processMessage
  sinkKind,      \* how the setLogs handed to processMessage behaves
  self,          \* which run of processMessage the variables above and below
                 \* describe
  configKind,    \* what the fetch of /config.json came back with
  mcpConfigs,    \* the tool registry read from /config.json
  decision,      \* the value EvaluateQuery returned
  execArg,       \* the serverName ExecuteMCPCall was invoked with
  mcpResult,     \* the value ExecuteMCPCall returned
  formatArg,     \* the mcpResult FormatResponse was invoked with
  response,      \* the value FormatResponse / GenerateDirectResponse returned
  reply,         \* the value processMessage returned to its caller
  outcome,       \* "pending", "returned" or "raised": how processMessage ended
  raised,        \* the message of the error processMessage raised, if any
  logs,          \* the lines handed to setLogs, in order
  path,          \* the orchestrator states entered, in order
  trace,         \* stage invocations, model calls and HTTP requests, in order
  inflight,      \* the stages whose HTTP request is outstanding
  modelCalls,    \* per stage: what became of its model call
  resultText,    \* the response text handed to the structured-output parsing
  parsed,        \* how the structured-output parsing of resultText settled
  scenario,      \* who calls processMessage: "pipeline" (one caller, one run
                 \* at a time), "faultySink", "twoRuns", "chatUI",
                 \* "chatUICallee", "alwaysCall" or "twoPipelines"
  sink,          \* what the caller's log sink holds: the lines it recorded,
                 \* each with the run that handed it over
  other,         \* the run that is not executing (two overlapping runs)
  chatUI         \* the state of the ChatUI component

\* what belongs to one run of processMessage
runVars == <<pc, apiKey, latestMessage, chatHistory, sinkKind, self,
             configKind, mcpConfigs, decision, execArg, mcpResult, formatArg,
             response, reply, outcome, raised, logs, path, trace, inflight,
             modelCalls>>

vars == <<runVars, resultText, parsed, scenario, sink, other, chatUI>>

\* what a step inside a run leaves alone: what the run was handed, and what
\* belongs to its caller
given == <<chatHistory, sinkKind, self, scenario, other, chatUI>>

\* ------------------------------------------------------------ JS values
UNDEF == "undefined"
\* the text of an absent (undefined) string interpolated in a template
NoText == <<UNDEF>>

JObj(n, s, r) == [type |-> "object", needsMCP |-> n, serverName |-> s,
                  reasoning |-> r, text |-> <<>>]
JNull == [type |-> "null", needsMCP |-> UNDEF, serverName |-> UNDEF,
          reasoning |-> NoText, text |-> <<>>]
JTrue == [type |-> "boolean", needsMCP |-> UNDEF, serverName |-> UNDEF,
          reasoning |-> NoText, text |-> <<>>]
JStr(t) == [type |-> "string", needsMCP |-> UNDEF, serverName |-> UNDEF,
            reasoning |-> NoText, text |-> t]
JUndefined == [type |-> "undefined", needsMCP |-> UNDEF, serverName |-> UNDEF,
               reasoning |-> NoText, text |-> <<>>]

\* JavaScript truthiness of a boolean, string, null or undefined value
Truthy(v) == v \notin {UNDEF, "null", "false", ""}

Return(v) == [tag |-> "return", val |-> v, err |-> <<>>]
Throw(m) == [tag |-> "throw", val |-> JUndefined, err |-> m]

\* ------------------------------------------------------------ tool registry
\* names a configuration document may use as keys of mcpServers
RegNames == {"weather", "search", "7"}
\* keys whose canonical form is an array index: Object.keys lists them first
IntegerLike == {"7"}
\* properties every plain object inherits from Object.prototype
Inherited == {"constructor"}

RECURSIVE NoDup(_)
NoDup(s) == IF Len(s) <= 1 THEN TRUE
            ELSE /\ \A i \in 2..Len(s) : s[i] # s[1]
                 /\ NoDup(Tail(s))

\* the registries: key sequences in document order, without duplicates
Registries == {r \in UNION {[1..n -> RegNames] : n \in 0..MaxTools} : NoDup(r)}

IsIntegerLike(n) == n \in IntegerLike
IsOrdinaryKey(n) == n \notin IntegerLike

\* Object.keys(mcpConfigs): integer-like keys first, then the others in
\* insertion order
ObjectKeys(reg) == SelectSeq(reg, IsIntegerLike) \o SelectSeq(reg, IsOrdinaryKey)

OwnKeys(reg) == {reg[i] : i \in 1..Len(reg)}

\* mcpConfigs[serverName]: own property, inherited property or undefined
Lookup(reg, name) ==
  IF name \in OwnKeys(reg) THEN "config"
  ELSE IF name \in Inherited THEN "inherited"
  ELSE UNDEF

\* ------------------------------------------------------------ model texts
WS == " "
NL == "\n"
\* the three-backquote code fence
FENCE == "<fence>"
JSONLABEL == "json"
LB == "{"
RB == "}"
PROSE == "Sure"

\* the bodies of the JSON objects the model may answer with
Payload ==
  ( "pNo"      :> JObj("false", UNDEF, <<"general knowledge">>) ) @@
  ( "pWeather" :> JObj("true", "weather", <<"needs weather">>) ) @@
  ( "p7"       :> JObj("true", "7", <<"needs 7">>) ) @@
  ( "pOmit"    :> JObj("true", UNDEF, <<"needs a tool">>) ) @@
  ( "pEmpty"   :> JObj("true", "", <<"needs a tool">>) ) @@
  ( "pBogus"   :> JObj("true", "bogus", <<"needs bogus">>) ) @@
  ( "pCtor"    :> JObj("true", "constructor", <<"needs constructor">>) ) @@
  ( "pFalseW"  :> JObj("false", "weather", NoText) )

IsWS(tok) == tok = WS
NotWS(tok) == tok # WS

Min(S) == CHOOSE x \in S : \A y \in S : x <= y
Max(S) == CHOOSE x \in S : \A y \in S : x >= y

RECURSIVE TrimStart(_)
TrimStart(t) == IF t # <<>> /\ IsWS(Head(t)) THEN TrimStart(Tail(t)) ELSE t

RECURSIVE TrimEnd(_)
TrimEnd(t) == IF t # <<>> /\ IsWS(t[Len(t)])
              THEN TrimEnd(SubSeq(t, 1, Len(t) - 1)) ELSE t

\* String.prototype.trim
Trim(t) == TrimEnd(TrimStart(t))

\* String.prototype.substring(0, n)
Substring0(t, n) == SubSeq(t, 1, IF Len(t) < n THEN Len(t) ELSE n)

\* JSON.parse: whitespace between tokens is insignificant
JSONparse(t) ==
  LET s == SelectSeq(t, NotWS) IN
  IF Len(s) = 3 /\ s[1] = LB /\ s[3] = RB /\ s[2] \in DOMAIN Payload
    THEN Return(Payload[s[2]])
  ELSE IF s = <<LB, RB>> THEN Return(JObj(UNDEF, UNDEF, NoText))
  ELSE IF s = <<"null">> THEN Return(JNull)
  ELSE IF s = <<"true">> THEN Return(JTrue)
  ELSE Throw(<<"Unexpected token">>)

NoMatch == [matched |-> FALSE, group |-> <<>>]
Matched(g) == [matched |-> TRUE, group |-> g]

\* resultText.match(/<fence>json\s*([\s\S]*?)\s*<fence>/)
MatchJsonFence(t) ==
  LET starts == {i \in 1..(Len(t) - 1) :
                   /\ t[i] = FENCE /\ t[i + 1] = JSONLABEL
                   /\ \E j \in (i + 2)..Len(t) : t[j] = FENCE}
  IN IF starts = {} THEN NoMatch
     ELSE LET i == Min(starts)
              j == Min({k \in (i + 2)..Len(t) : t[k] = FENCE})
          IN Matched(Trim(SubSeq(t, i + 2, j - 1)))

\* resultText.match(/<fence>\s*([\s\S]*?)\s*<fence>/)
MatchFence(t) ==
  LET starts == {i \in 1..Len(t) :
                   /\ t[i] = FENCE
                   /\ \E j \in (i + 1)..Len(t) : t[j] = FENCE}
  IN IF starts = {} THEN NoMatch
     ELSE LET i == Min(starts)
              j == Min({k \in (i + 1)..Len(t) : t[k] = FENCE})
          IN Matched(Trim(SubSeq(t, i + 1, j - 1)))

\* resultText.match(/(\{[\s\S]*\})/)
MatchBraces(t) ==
  LET starts == {i \in 1..Len(t) :
                   /\ t[i] = LB
                   /\ \E j \in (i + 1)..Len(t) : t[j] = RB}
  IN IF starts = {} THEN NoMatch
     ELSE LET i == Min(starts)
              j == Max({k \in (i + 1)..Len(t) : t[k] = RB})
          IN Matched(SubSeq(t, i, j))

\* a || b || c over the three match results
JsonMatch(t) ==
  IF MatchJsonFence(t).matched THEN MatchJsonFence(t)
  ELSE IF MatchFence(t).matched THEN MatchFence(t)
  ELSE MatchBraces(t)

ParseErrorSentinel(t) ==
  JObj("false", UNDEF,
       <<"Fallback due to JSON parsing error. Raw response: ">>
         \o Substring0(t, RawPrefixCap))

NoPatternSentinel ==
  JObj("false", UNDEF,
       <<"Fallback due to JSON parsing error. No JSON pattern found.">>)

\* variant of ParseExtracted: the second JSON.parse has no try around it
ParseExtractedUnguarded(t, g) == JSONparse(Trim(g))

\* the inner try/catch: JSON.parse of the trimmed extraction, or the sentinel
ParseExtracted(t, g) ==
  IF JSONparse(Trim(g)).tag = "return"
    THEN JSONparse(Trim(g))
    ELSE Return(ParseErrorSentinel(t))

\* the useJson branch of callOpenAI: direct parse, then extraction
ParseStructured(t) ==
  IF JSONparse(t).tag = "return" THEN JSONparse(t)
  ELSE LET m == JsonMatch(t) IN
       IF m.matched /\ m.group # <<>>
         THEN ParseExtracted(t, m.group)
         ELSE Return(NoPatternSentinel)


\* ------------------------------------------------------------ model client
\* what the model endpoint may do with one request
HttpFailKinds == {"transport", "status", "statusNoMsg", "statusBadBody",
                  "okMalformed"}

\* response texts of the structured (useJson) request
DecisionTexts ==
  { <<LB, p, RB>> : p \in DOMAIN Payload } \cup
  { <<LB, RB>>, <<"null">>, <<"true">>, <<>>, <<PROSE>>,
    <<FENCE, JSONLABEL, WS, LB, "pWeather", RB, WS, FENCE>>,
    <<FENCE, WS, LB, "pOmit", RB, FENCE>>,
    <<PROSE, WS, LB, "pBogus", RB, WS, PROSE>>,
    <<FENCE, JSONLABEL, FENCE, LB, "pWeather", RB>>,
    <<FENCE, PROSE, FENCE>>,
    <<LB, PROSE, RB>> }

AnswerTokens == {"answer", "Error executing MCP call: "}

\* response texts of the plain request
AnswerTexts == UNION {[1..n -> AnswerTokens] : n \in 0..MaxAnswerLen}

NoOutcome == [kind |-> "none", content |-> <<>>]

\* every outcome of one request
AllHttpOutcomes(useJson) ==
  {[kind |-> k, content |-> <<>>] : k \in HttpFailKinds \cup {"okNull"}} \cup
  {[kind |-> "ok", content |-> t] :
     t \in IF useJson THEN DecisionTexts ELSE AnswerTexts}

\* a failure and the answers that take the run down each of its branches
FewHttpOutcomes(useJson) ==
  {[kind |-> "transport", content |-> <<>>]} \cup
  {[kind |-> "ok", content |-> t] :
     t \in IF useJson
             THEN {<<LB, "pNo", RB>>, <<LB, "pWeather", RB>>, <<PROSE>>}
             ELSE {<<a>> : a \in AnswerTokens}}

\* the outcomes the model endpoint is let to produce: all of them for a single
\* run, a few where runs are combined with a caller
HttpOutcomes(useJson) ==
  IF scenario \in {"pipeline", "alwaysCall"} THEN AllHttpOutcomes(useJson)
  ELSE FewHttpOutcomes(useJson)

AuthErrorText == <<"OpenAI API key is required">>

\* variant of KeyMissing: the credential check is left out
KeyMissingUnchecked(key) == FALSE

\* if (!apiKey) throw new Error("OpenAI API key is required")
KeyMissing(key) == ~Truthy(key)

\* the message of the error raised inside the try block of callOpenAI
HttpErrorText(o) ==
  CASE o.kind = "transport"     -> <<"Failed to fetch">>
    [] o.kind = "status"        -> <<"OpenAI API error: ", "Rate limit reached">>
    [] o.kind = "statusNoMsg"   -> <<"OpenAI API error: ", "Bad Gateway">>
    [] o.kind = "statusBadBody" -> <<"Unexpected token < in JSON">>
    [] o.kind = "okMalformed"   -> <<"Cannot read properties of undefined">>

ClientApology ==
  <<"I apologize, but I encountered an error while processing your request. Could you try rephrasing your question?">>

\* the try block of callOpenAI, from the fetch to the return
callOpenAITry(useJson, o) ==
  IF o.kind \in HttpFailKinds THEN Throw(HttpErrorText(o))
  ELSE IF o.kind = "okNull" THEN Return(JNull)
  ELSE IF useJson THEN ParseStructured(o.content)
  ELSE Return(JStr(o.content))

\* the catch block of callOpenAI
callOpenAICatch(useJson, err) ==
  IF useJson
    THEN Return(JObj("false", UNDEF, <<"Fallback due to error: ">> \o err))
    ELSE Return(JStr(ClientApology))

\* callOpenAI once the endpoint has answered with o
callOpenAI(useJson, o) ==
  LET r == callOpenAITry(useJson, o) IN
  IF r.tag = "throw" THEN callOpenAICatch(useJson, r.err) ELSE r

\* ------------------------------------------------------------ always-call client
\* which pipeline the run executes: the decide-then-call one (EvaluateQuery
\* first) or the always-call one (ChooseMCPServer first); of two pipelines
\* side by side the second run is the always-call one
AlwaysCall ==
  \/ scenario = "alwaysCall"
  \/ scenario = "twoPipelines" /\ self = 2

FallbackServer == "sequential-thinking"

SelectionParseErrorSentinel(t) ==
  JObj(UNDEF, FallbackServer,
       <<"Fallback selection due to JSON parsing error. Raw response: ">>
         \o Substring0(t, RawPrefixCap))

SelectionNoPatternSentinel ==
  JObj(UNDEF, FallbackServer,
       <<"Fallback selection due to JSON parsing error. No JSON pattern found.">>)

\* the inner try/catch of the always-call client
SelectionParseExtracted(t, g) ==
  IF JSONparse(Trim(g)).tag = "return"
    THEN JSONparse(Trim(g))
    ELSE Return(SelectionParseErrorSentinel(t))

\* the useJson branch of the always-call client
SelectionParseStructured(t) ==
  IF JSONparse(t).tag = "return" THEN JSONparse(t)
  ELSE LET m == JsonMatch(t) IN
       IF m.matched /\ m.group # <<>>
         THEN SelectionParseExtracted(t, m.group)
         ELSE Return(SelectionNoPatternSentinel)

\* prompt.split(' ').slice(-5).join(' ') of the prompt of each stage: both
\* prompts end in a line break and the indentation of the closing quote
PromptTail(stage) ==
  IF stage = "FormatResponse" THEN <<"way.", NL, WS, WS, WS, WS>>
  ELSE <<WS, WS, WS, WS>>

MockAnswer(stage) ==
  <<"Based on the MCP server results, I can provide you with information about \"">>
    \o PromptTail(stage) \o <<"\"">>

\* the try block of the always-call client
callOpenAIAlwaysTry(useJson, o) ==
  IF o.kind \in HttpFailKinds THEN Throw(HttpErrorText(o))
  ELSE IF o.kind = "okNull" THEN Return(JNull)
  ELSE IF useJson THEN SelectionParseStructured(o.content)
  ELSE Return(JStr(o.content))

\* the catch block of the always-call client; no prompt of the pipeline holds
\* the words 'execute MCP call' unless the user wrote them
callOpenAIAlwaysCatch(useJson, err, stage) ==
  IF useJson
    THEN Return(JObj(UNDEF, FallbackServer,
           <<"Selected sequential-thinking because it's the most reliable fallback option. Error: ">>
             \o err))
    ELSE Return(JStr(MockAnswer(stage)))

\* the always-call client once the endpoint has answered with o
callOpenAIAlways(useJson, o, stage) ==
  LET r == callOpenAIAlwaysTry(useJson, o) IN
  IF r.tag = "throw" THEN callOpenAIAlwaysCatch(useJson, r.err, stage) ELSE r

\* the callOpenAI of the module the run executes
Client(useJson, o, stage) ==
  IF AlwaysCall THEN callOpenAIAlways(useJson, o, stage)
  ELSE callOpenAI(useJson, o)

\* ------------------------------------------------------------ stages
Out(r, l) == [res |-> r, logs |-> l]

NullLengthError == <<"Cannot read properties of null (reading 'length')">>
NullPropertyError == <<"Cannot read properties of null (reading 'needsMCP')">>

EvaluationErrorReasoning ==
  <<"Error during evaluation, falling back to direct response">>

\* variant of EvaluateQueryCatch: the error is logged and raised again
EvaluateQueryCatchRethrow(err) == Out(Throw(err), <<"Evaluate:error">>)

\* the catch block of EvaluateQuery
EvaluateQueryCatch(err) ==
  Out(Return(JObj("false", UNDEF, EvaluationErrorReasoning)),
      <<"Evaluate:error">>)

\* the try block of EvaluateQuery after callOpenAI returned result
EvaluateQueryTry(result, reg) ==
  IF result.type = "null"
    THEN Out(Throw(NullPropertyError), <<"Evaluate:received">>)
  ELSE IF /\ Truthy(result.needsMCP)
          /\ ~Truthy(result.serverName)
          /\ Len(ObjectKeys(reg)) > 0
    THEN Out(Return([result EXCEPT !.serverName = ObjectKeys(reg)[1]]),
             <<"Evaluate:received", "Evaluate:complete", "Evaluate:reasoning",
               "Evaluate:default">>)
  ELSE Out(Return(result),
           <<"Evaluate:received", "Evaluate:complete", "Evaluate:reasoning">>)

\* EvaluateQuery from the point where callOpenAI settled with cr
EvaluateQuery(cr, reg) ==
  IF cr.tag = "throw" THEN EvaluateQueryCatch(cr.err)
  ELSE LET t == EvaluateQueryTry(cr.val, reg) IN
       IF t.res.tag = "throw"
         THEN Out(EvaluateQueryCatch(t.res.err).res,
                  t.logs \o EvaluateQueryCatch(t.res.err).logs)
         ELSE t

NullServerNameError ==
  <<"Cannot read properties of null (reading 'serverName')">>

SelectionFallbackReasoning ==
  <<"Fallback to default server due to parsing error">>

\* Object.keys(mcpConfigs)[0]
FirstServerName(reg) ==
  IF ObjectKeys(reg) = <<>> THEN UNDEF ELSE ObjectKeys(reg)[1]

\* the catch block of ChooseMCPServer
ChooseMCPServerCatch(err, reg) ==
  Out(Return(JObj(UNDEF, FirstServerName(reg), SelectionFallbackReasoning)),
      <<"Choose:error", "Choose:fallback">>)

\* the try block of ChooseMCPServer after callOpenAI returned result
ChooseMCPServerTry(result) ==
  IF result.type = "null"
    THEN Out(Throw(NullServerNameError), <<"Choose:received">>)
    ELSE Out(Return(result),
             <<"Choose:received", "Choose:selected", "Choose:reasoning">>)

\* ChooseMCPServer from the point where callOpenAI settled with cr
ChooseMCPServer(cr, reg) ==
  IF cr.tag = "throw" THEN ChooseMCPServerCatch(cr.err, reg)
  ELSE LET t == ChooseMCPServerTry(cr.val) IN
       IF t.res.tag = "throw"
         THEN Out(ChooseMCPServerCatch(t.res.err, reg).res,
                  t.logs \o ChooseMCPServerCatch(t.res.err, reg).logs)
         ELSE t

ExecutionErrorPrefix == "Error executing MCP call: "
NotFoundPrefix == "Error: Could not find MCP server configuration for "

\* the early return of ExecuteMCPCall when the lookup yields nothing
ExecuteMCPCallNotFound(serverName) ==
  Out(Return(JStr(<<NotFoundPrefix, serverName>>)), <<"Execute:notFound">>)

\* the catch block of ExecuteMCPCall
ExecuteMCPCallCatch(err) ==
  Out(Return(JStr(<<ExecutionErrorPrefix>> \o err)), <<"Execute:error">>)

\* a stage's use of the plain response: response.length, then return response
UsePlainResponse(cr, stage) ==
  IF cr.tag = "throw" THEN Out(cr, <<>>)
  ELSE IF cr.val.type = "null" THEN Out(Throw(NullLengthError), <<>>)
  ELSE Out(cr, <<stage \o ":received", stage \o ":snippet">>)

\* ExecuteMCPCall from the point where callOpenAI settled with cr
ExecuteMCPCall(cr) ==
  LET t == UsePlainResponse(cr, "Execute") IN
  IF t.res.tag = "throw" THEN ExecuteMCPCallCatch(t.res.err) ELSE t

FormatApology ==
  <<"I encountered an error while formatting my response. Please try asking your question again in a different way.">>

\* variant of FormatResponseCatch: the error is logged and raised again
FormatResponseCatchRethrow(err) == Out(Throw(err), <<"Format:error">>)

\* the catch block of FormatResponse
FormatResponseCatch(err) ==
  Out(Return(JStr(FormatApology)), <<"Format:error">>)

\* variant of FormatResponse: the text returned carries the number of lines
\* the sink holds at that moment
FormatResponseStamped(cr) ==
  LET t == UsePlainResponse(cr, "Format") IN
  IF t.res.tag = "throw" THEN FormatResponseCatch(t.res.err)
  ELSE Out(Return(JStr(t.res.val.text \o <<ToString(Len(sink))>>)), t.logs)

\* FormatResponse from the point where callOpenAI settled with cr
FormatResponse(cr) ==
  LET t == UsePlainResponse(cr, "Format") IN
  IF t.res.tag = "throw" THEN FormatResponseCatch(t.res.err) ELSE t

DirectApology ==
  <<"I apologize, but I encountered an error while processing your request. Could you try rephrasing your question?">>

\* the catch block of GenerateDirectResponse
GenerateDirectResponseCatch(err) ==
  Out(Return(JStr(DirectApology)), <<"Direct:error">>)

\* GenerateDirectResponse from the point where callOpenAI settled with cr
GenerateDirectResponse(cr) ==
  LET t == UsePlainResponse(cr, "Direct") IN
  IF t.res.tag = "throw" THEN GenerateDirectResponseCatch(t.res.err) ELSE t

\* variant of ServerNameProp: the tool stage is always handed one fixed server
ServerNamePropFixed(d) == "weather"

\* the serverName Chatbot destructures from the decision and hands to
\* ExecuteMCPCall
ServerNameProp(d) == d.serverName

ChatbotApologyPrefix ==
  "Sorry, I encountered an error while processing your request: "

\* the catch block of Chatbot
ChatbotCatch(err) ==
  Out(Return(JStr(<<ChatbotApologyPrefix>> \o err)), <<"Chatbot:ERROR">>)

ConfigApology ==
  <<"Sorry, there was an error processing your request. Please check your API key and try again.">>

\* variant of processMessageCatch: the error is logged and raised again
processMessageCatchRethrow(err) == Out(Throw(err), <<"processMessage:error">>)

\* the catch block of processMessage
processMessageCatch(err) ==
  Out(Return(JStr(ConfigApology)), <<"processMessage:error">>)

\* what processMessage hands to its caller when a stage settled with r:
\* Chatbot's catch, then processMessage's catch
Settle(r) ==
  IF r.tag = "return" THEN Out(r, <<>>)
  ELSE LET c == ChatbotCatch(r.err) IN
       IF c.res.tag = "return" THEN c
       ELSE Out(processMessageCatch(c.res.err).res,
                c.logs \o processMessageCatch(c.res.err).logs)


\* ------------------------------------------------------------ runs
Stages == {"EvaluateQuery", "ChooseMCPServer", "ExecuteMCPCall",
           "FormatResponse", "GenerateDirectResponse"}

ApiKeys == {"null", "sk-test"}
Messages == {<<"hello">>, <<"what's the weather in Paris">>}

ConfigFailKinds == {"network", "notOK", "badJson", "noServers"}

\* "wrongType": a document whose mcpServers is a number; Object.keys of a
\* number is [], and property lookup on it follows the prototype chain, so the
\* run goes on as with an empty registry
AllConfigOutcomes ==
  {[kind |-> k, reg |-> <<>>] : k \in ConfigFailKinds \cup {"wrongType"}} \cup
  {[kind |-> "ok", reg |-> r] : r \in Registries}

FewConfigOutcomes ==
  {[kind |-> "notOK", reg |-> <<>>], [kind |-> "ok", reg |-> <<>>],
   [kind |-> "ok", reg |-> <<"weather">>]}

\* what the fetch of /config.json is let to come back with
ConfigOutcomes ==
  IF scenario \in {"pipeline", "alwaysCall"} THEN AllConfigOutcomes
  ELSE FewConfigOutcomes

\* the message of the error raised inside the try block of processMessage
ConfigErrorText(o) ==
  CASE o.kind = "network"   -> <<"Failed to fetch">>
    [] o.kind = "notOK"     -> <<"Failed to fetch configuration: ", "Not Found">>
    [] o.kind = "badJson"   -> <<"Unexpected token < in JSON">>
    [] o.kind = "noServers" -> <<"Cannot convert undefined or null to object">>

DestructureError == <<"Cannot destructure property 'needsMCP'">>

Ev(e, st) == [ev |-> e, stage |-> st]

\* settled: how callOpenAI settled towards the stage that called it
NoCall == [status |-> "none", outcome |-> NoOutcome, settled |-> Return(JUndefined)]

\* no run of processMessage has been started
NoRun ==
  /\ apiKey = "null"
  /\ latestMessage = <<>>
  /\ chatHistory = <<>>
  /\ sinkKind = "record"
  /\ configKind = "none"
  /\ mcpConfigs = <<>>
  /\ decision = JUndefined
  /\ execArg = UNDEF
  /\ mcpResult = JUndefined
  /\ formatArg = JUndefined
  /\ response = JUndefined
  /\ reply = JUndefined
  /\ outcome = "pending"
  /\ raised = <<>>
  /\ logs = <<>>
  /\ path = <<>>
  /\ trace = <<>>
  /\ inflight = <<>>
  /\ modelCalls = [st \in Stages |-> NoCall]

\* a run of processMessage as a record, and the run that was not started
Run(id) ==
  [pc |-> pc, apiKey |-> apiKey, latestMessage |-> latestMessage,
   chatHistory |-> chatHistory, sinkKind |-> sinkKind, self |-> id,
   configKind |-> configKind, mcpConfigs |-> mcpConfigs,
   decision |-> decision, execArg |-> execArg, mcpResult |-> mcpResult,
   formatArg |-> formatArg, response |-> response, reply |-> reply,
   outcome |-> outcome, raised |-> raised, logs |-> logs, path |-> path,
   trace |-> trace, inflight |-> inflight, modelCalls |-> modelCalls]

IdleRun(id) ==
  [pc |-> "idle", apiKey |-> "null", latestMessage |-> <<>>,
   chatHistory |-> <<>>, sinkKind |-> "record", self |-> id,
   configKind |-> "none", mcpConfigs |-> <<>>,
   decision |-> JUndefined, execArg |-> UNDEF, mcpResult |-> JUndefined,
   formatArg |-> JUndefined, response |-> JUndefined, reply |-> JUndefined,
   outcome |-> "pending", raised |-> <<>>, logs |-> <<>>, path |-> <<>>,
   trace |-> <<>>, inflight |-> <<>>,
   modelCalls |-> [st \in Stages |-> NoCall]]

Msg(r, c) == [role |-> r, content |-> c]

Greeting == Msg("assistant", <<"Hello! I'm your MCP assistant.">>)

\* ChatUI as mounted: the useState initial values
Mounted ==
  [messages |-> <<Greeting>>, inputValue |-> <<>>, isLoading |-> FALSE,
   renderedLogs |-> <<>>, renderedMessages |-> <<>>, submits |-> 0,
   handled |-> "mount"]

\* one caller, one run at a time, nothing around it
Alone(sc) ==
  /\ scenario = sc
  /\ self = 1
  /\ sink = <<>>
  /\ other = IdleRun(2)
  /\ chatUI = Mounted

Init ==
  /\ pc = "idle"
  /\ NoRun
  /\ resultText = <<>>
  /\ parsed = Return(JUndefined)
  /\ Alone("pipeline")

\* the lines of l the sink takes without raising, as the sink holds them
Recorded(l) ==
  LET Taken(x) == x # sinkKind
      kept == SelectSeq(l, Taken)
  IN  [i \in 1..Len(kept) |-> [run |-> self, line |-> kept[i]]]

\* setLogs(line) for each line of l
Sunk(l) == IF sinkKind = "discard" THEN sink ELSE sink \o Recorded(l)

\* a step of the run that does not end it
Step(newPc, l, p, tr) ==
  /\ pc' = newPc
  /\ logs' = logs \o l
  /\ path' = path \o p
  /\ trace' = trace \o tr
  /\ sink' = Sunk(l)
  /\ UNCHANGED <<reply, outcome, raised>>

\* the step in which processMessage settles with r
Deliver(r, l, p, tr) ==
  /\ pc' = "done"
  /\ logs' = logs \o l
  /\ path' = path \o p
  /\ trace' = trace \o tr
  /\ sink' = Sunk(l)
  /\ reply' = r.val
  /\ outcome' = IF r.tag = "return" THEN "returned" ELSE "raised"
  /\ raised' = r.err

\* the description of the error a raising sink raises
SinkError == <<"setLogs failed">>

\* Chatbot's setLogs calls that precede its try block
OutsideTry == {"Chatbot:start", "Chatbot:message"}

SinkRaises(l) == \E i \in DOMAIN l : l[i] = sinkKind

\* the lines of l handed to the sink up to the one it raises on
UpToRaise(l) == SubSeq(l, 1, Min({i \in DOMAIN l : l[i] = sinkKind}))

\* the sink raises on a line of l that Chatbot hands it: inside the try block
\* Chatbot's catch takes over, before it the error leaves Chatbot and
\* processMessage's catch takes over
SinkRaised(l, p) ==
  IF sinkKind \in OutsideTry
    THEN Deliver(processMessageCatch(SinkError).res,
                 UpToRaise(l) \o processMessageCatch(SinkError).logs, p, <<>>)
    ELSE Deliver(Settle(Throw(SinkError)).res,
                 UpToRaise(l) \o Settle(Throw(SinkError)).logs,
                 p \o <<"Done">>, <<>>)

\* variant of ChatbotLogs: Chatbot gives up when the sink kept nothing
ChatbotLogsChecked(newPc, l, p) ==
  IF SinkRaises(l) THEN SinkRaised(l, p)
  ELSE IF sinkKind = "discard"
    THEN Deliver(Settle(Throw(SinkError)).res,
                 l \o Settle(Throw(SinkError)).logs, p \o <<"Done">>, <<>>)
    ELSE Step(newPc, l, p, <<>>)

\* Chatbot hands the lines l to setLogs and goes on to newPc
ChatbotLogs(newPc, l, p) ==
  IF SinkRaises(l) THEN SinkRaised(l, p) ELSE Step(newPc, l, p, <<>>)

\* a stage settled with sr inside Chatbot: go on, or unwind through the
\* catch blocks of Chatbot and processMessage
StageSettled(sr, newPc, pre, p, tr) ==
  IF sr.res.tag = "return"
    THEN Step(newPc, pre \o sr.logs, p, tr)
    ELSE Deliver(Settle(sr.res).res, pre \o sr.logs \o Settle(sr.res).logs,
                 p \o <<"Done">>, tr)

\* the sinks a caller may hand to processMessage; a line of SinkFaults names
\* the sink that raises on that line and records every other one
SinkFaults ==
  {"Chatbot:start", "Chatbot:STEP 1", "Chatbot:STEP 2", "Chatbot:STEP 3",
   "Chatbot:complete"}

SinkKinds ==
  CASE scenario = "faultySink" -> {"record"} \cup SinkFaults
    [] scenario = "twoRuns"    -> {"record", "discard"}
    [] OTHER                   -> {"record"}

\* processMessage(h, m, k, setLogs) up to its fetch('/config.json')
processMessageInvoke(k, m, h, sk) ==
  /\ apiKey' = k
  /\ latestMessage' = m
  /\ chatHistory' = h
  /\ sinkKind' = sk
  /\ pc' = "config"
  /\ configKind' = "none"
  /\ mcpConfigs' = <<>>
  /\ decision' = JUndefined
  /\ execArg' = UNDEF
  /\ mcpResult' = JUndefined
  /\ formatArg' = JUndefined
  /\ response' = JUndefined
  /\ reply' = JUndefined
  /\ outcome' = "pending"
  /\ raised' = <<>>
  /\ logs' = <<>>
  /\ path' = <<>>
  /\ trace' = <<>>
  /\ inflight' = <<>>
  /\ modelCalls' = [st \in Stages |-> NoCall]

\* the scenarios in which two runs overlap on one page
Overlapping == {"twoRuns", "twoPipelines"}

\* the caller invokes processMessage; a caller that runs one call at a time
\* starts each with an empty sink, two overlapping runs are started once each
\* on the sink they share
processMessageCall ==
  /\ scenario \notin {"chatUI", "chatUICallee"}
  /\ pc = "idle" \/ (pc = "done" /\ scenario \notin Overlapping)
  /\ \E k \in ApiKeys, m \in Messages, sk \in SinkKinds :
       processMessageInvoke(k, m, <<>>, sk)
  /\ sink' = IF scenario \in Overlapping THEN sink ELSE <<>>
  /\ UNCHANGED <<self, scenario, other, chatUI, resultText, parsed>>

\* processMessage once the configuration fetch settled
ConfigResponse ==
  /\ pc = "config"
  /\ \E o \in ConfigOutcomes :
       /\ configKind' = o.kind
       /\ IF o.kind \notin ConfigFailKinds
            THEN /\ mcpConfigs' = o.reg
                 /\ Step("chatbot", <<"processMessage:loaded">>, <<>>, <<>>)
            ELSE /\ mcpConfigs' = mcpConfigs
                 /\ Deliver(processMessageCatch(ConfigErrorText(o)).res,
                            processMessageCatch(ConfigErrorText(o)).logs,
                            <<>>, <<>>)
  /\ UNCHANGED <<apiKey, latestMessage, decision, execArg, mcpResult,
                 formatArg, response, inflight, modelCalls, resultText,
                 parsed, given>>

\* Chatbot up to the invocation of its first stage
ChatbotStart ==
  /\ pc = "chatbot"
  /\ ChatbotLogs(IF AlwaysCall THEN "choose" ELSE "evaluate",
                 <<"Chatbot:start", "Chatbot:message", "Chatbot:STEP 1">>,
                 <<"Start">>)
  /\ UNCHANGED <<apiKey, latestMessage, configKind, mcpConfigs, decision,
                 execArg, mcpResult, formatArg, response, inflight,
                 modelCalls, resultText, parsed, given>>

\* variant of EvaluatePre: EvaluateQuery logs nothing before its request
EvaluatePreSilent == <<>>

\* the lines EvaluateQuery hands to setLogs before it calls callOpenAI
EvaluatePre == <<"Evaluate:start", "Evaluate:prompt", "Evaluate:sending">>

\* EvaluateQuery up to the fetch inside callOpenAI
EvaluateQueryBegin ==
  /\ pc = "evaluate"
  /\ IF KeyMissing(apiKey)
       THEN LET sr == EvaluateQuery(Throw(AuthErrorText), mcpConfigs) IN
            /\ StageSettled(sr, "decided", EvaluatePre, <<"Deciding">>,
                 <<Ev("invoke", "EvaluateQuery"), Ev("call", "EvaluateQuery"),
                   Ev("auth", "EvaluateQuery")>>)
            /\ decision' = IF sr.res.tag = "return" THEN sr.res.val ELSE decision
            /\ modelCalls' = [modelCalls EXCEPT !["EvaluateQuery"] =
                                [status |-> "authError", outcome |-> NoOutcome,
                                 settled |-> Throw(AuthErrorText)]]
            /\ UNCHANGED inflight
       ELSE /\ Step("evaluateHttp", EvaluatePre, <<"Deciding">>,
                 <<Ev("invoke", "EvaluateQuery"), Ev("call", "EvaluateQuery"),
                   Ev("http", "EvaluateQuery")>>)
            /\ inflight' = Append(inflight, "EvaluateQuery")
            /\ modelCalls' = [modelCalls EXCEPT !["EvaluateQuery"] =
                                [status |-> "pending", outcome |-> NoOutcome,
                                 settled |-> Return(JUndefined)]]
            /\ UNCHANGED decision
  /\ UNCHANGED <<apiKey, latestMessage, configKind, mcpConfigs, execArg,
                 mcpResult, formatArg, response, resultText, parsed, given>>

\* variant of EvaluateQueryResponse: a failed request is issued once more
EvaluateQueryResponseRetry ==
  /\ pc = "evaluateHttp"
  /\ \E o \in HttpOutcomes(TRUE) :
       IF o.kind \in HttpFailKinds /\ Len(trace) = 3
         THEN /\ Step("evaluateHttp", <<>>, <<>>,
                      <<Ev("http", "EvaluateQuery")>>)
              /\ UNCHANGED <<decision, modelCalls, inflight>>
         ELSE LET sr == EvaluateQuery(callOpenAI(TRUE, o), mcpConfigs) IN
              /\ StageSettled(sr, "decided", <<>>, <<>>, <<>>)
              /\ decision' = IF sr.res.tag = "return" THEN sr.res.val
                             ELSE decision
              /\ modelCalls' = [modelCalls EXCEPT !["EvaluateQuery"] =
                                  [status |-> "done", outcome |-> o,
                                   settled |-> callOpenAI(TRUE, o)]]
              /\ inflight' = <<>>
  /\ UNCHANGED <<apiKey, latestMessage, configKind, mcpConfigs, execArg,
                 mcpResult, formatArg, response, resultText, parsed, given>>

\* EvaluateQuery once the model endpoint answered
EvaluateQueryResponse ==
  /\ pc = "evaluateHttp"
  /\ \E o \in HttpOutcomes(TRUE) :
       LET sr == EvaluateQuery(callOpenAI(TRUE, o), mcpConfigs) IN
       /\ StageSettled(sr, "decided", <<>>, <<>>, <<>>)
       /\ decision' = IF sr.res.tag = "return" THEN sr.res.val ELSE decision
       /\ modelCalls' = [modelCalls EXCEPT !["EvaluateQuery"] =
                           [status |-> "done", outcome |-> o,
                            settled |-> callOpenAI(TRUE, o)]]
  /\ inflight' = <<>>
  /\ UNCHANGED <<apiKey, latestMessage, configKind, mcpConfigs, execArg,
                 mcpResult, formatArg, response, resultText, parsed, given>>

\* Chatbot between EvaluateQuery and the next stage: the branch
ChatbotBranch ==
  /\ pc = "decided"
  /\ IF decision.type \in {"null", "undefined"}
       THEN StageSettled(Out(Throw(DestructureError), <<>>), "done",
                         <<>>, <<>>, <<>>)
       ELSE IF Truthy(decision.needsMCP) /\ Truthy(decision.serverName)
         THEN ChatbotLogs("execute",
                <<"Chatbot:selected", "Chatbot:reasoning", "Chatbot:STEP 2">>,
                <<>>)
         ELSE ChatbotLogs("direct",
                <<"Chatbot:direct", "Chatbot:reasoning", "Chatbot:STEP 2">>,
                <<>>)
  /\ UNCHANGED <<apiKey, latestMessage, configKind, mcpConfigs, decision,
                 execArg, mcpResult, formatArg, response, inflight,
                 modelCalls, resultText, parsed, given>>


ExecutePre == <<"Execute:context", "Execute:config", "Execute:query",
                "Execute:prompt", "Execute:sending">>

\* ExecuteMCPCall up to its early return or the fetch inside callOpenAI
ExecuteMCPCallBegin ==
  /\ pc = "execute"
  /\ execArg' = ServerNameProp(decision)
  /\ IF Lookup(mcpConfigs, ServerNameProp(decision)) = UNDEF
       THEN LET sr == ExecuteMCPCallNotFound(ServerNameProp(decision)) IN
            /\ StageSettled(sr, "executed", <<"Execute:start">>,
                 <<"Executing">>, <<Ev("invoke", "ExecuteMCPCall")>>)
            /\ mcpResult' = IF sr.res.tag = "return" THEN sr.res.val
                            ELSE mcpResult
            /\ UNCHANGED <<inflight, modelCalls>>
       ELSE IF KeyMissing(apiKey)
         THEN LET sr == ExecuteMCPCall(Throw(AuthErrorText)) IN
              /\ StageSettled(sr, "executed", <<"Execute:start">> \o ExecutePre,
                   <<"Executing">>,
                   <<Ev("invoke", "ExecuteMCPCall"), Ev("call", "ExecuteMCPCall"),
                     Ev("auth", "ExecuteMCPCall")>>)
              /\ mcpResult' = IF sr.res.tag = "return" THEN sr.res.val
                              ELSE mcpResult
              /\ modelCalls' = [modelCalls EXCEPT !["ExecuteMCPCall"] =
                                  [status |-> "authError", outcome |-> NoOutcome,
                                 settled |-> Throw(AuthErrorText)]]
              /\ UNCHANGED inflight
         ELSE /\ Step("executeHttp", <<"Execute:start">> \o ExecutePre,
                   <<"Executing">>,
                   <<Ev("invoke", "ExecuteMCPCall"), Ev("call", "ExecuteMCPCall"),
                     Ev("http", "ExecuteMCPCall")>>)
              /\ inflight' = Append(inflight, "ExecuteMCPCall")
              /\ modelCalls' = [modelCalls EXCEPT !["ExecuteMCPCall"] =
                                  [status |-> "pending", outcome |-> NoOutcome,
                                 settled |-> Return(JUndefined)]]
              /\ UNCHANGED mcpResult
  /\ UNCHANGED <<apiKey, latestMessage, configKind, mcpConfigs, decision,
                 formatArg, response, resultText, parsed, given>>

\* ExecuteMCPCall once the model endpoint answered
ExecuteMCPCallResponse ==
  /\ pc = "executeHttp"
  /\ \E o \in HttpOutcomes(FALSE) :
       LET sr == ExecuteMCPCall(Client(FALSE, o, "ExecuteMCPCall")) IN
       /\ StageSettled(sr, "executed", <<>>, <<>>, <<>>)
       /\ mcpResult' = IF sr.res.tag = "return" THEN sr.res.val ELSE mcpResult
       /\ modelCalls' = [modelCalls EXCEPT !["ExecuteMCPCall"] =
                           [status |-> "done", outcome |-> o,
                            settled |-> Client(FALSE, o, "ExecuteMCPCall")]]
  /\ inflight' = <<>>
  /\ UNCHANGED <<apiKey, latestMessage, configKind, mcpConfigs, decision,
                 execArg, formatArg, response, resultText, parsed, given>>

FormatPre == <<"Chatbot:STEP 3", "Format:start", "Format:prompt",
               "Format:sending">>

\* Chatbot after ExecuteMCPCall, and FormatResponse up to the fetch; from is
\* where Chatbot may stand when it goes on to FormatResponse
FormatResponseFrom(from) ==
  /\ pc \in from
  /\ IF SinkRaises(<<"Chatbot:STEP 3">>)
       THEN /\ SinkRaised(<<"Chatbot:STEP 3">>, <<>>)
            /\ UNCHANGED <<formatArg, response, modelCalls, inflight>>
       ELSE IF KeyMissing(apiKey)
         THEN LET sr == FormatResponse(Throw(AuthErrorText)) IN
              /\ formatArg' = mcpResult
              /\ StageSettled(sr, "formatted", FormatPre, <<"Formatting">>,
                   <<Ev("invoke", "FormatResponse"), Ev("call", "FormatResponse"),
                     Ev("auth", "FormatResponse")>>)
              /\ response' = IF sr.res.tag = "return" THEN sr.res.val
                             ELSE response
              /\ modelCalls' = [modelCalls EXCEPT !["FormatResponse"] =
                                  [status |-> "authError", outcome |-> NoOutcome,
                                   settled |-> Throw(AuthErrorText)]]
              /\ UNCHANGED inflight
         ELSE /\ formatArg' = mcpResult
              /\ Step("formatHttp", FormatPre, <<"Formatting">>,
                   <<Ev("invoke", "FormatResponse"), Ev("call", "FormatResponse"),
                     Ev("http", "FormatResponse")>>)
              /\ inflight' = Append(inflight, "FormatResponse")
              /\ modelCalls' = [modelCalls EXCEPT !["FormatResponse"] =
                                  [status |-> "pending", outcome |-> NoOutcome,
                                   settled |-> Return(JUndefined)]]
              /\ UNCHANGED response
  /\ UNCHANGED <<apiKey, latestMessage, configKind, mcpConfigs, decision,
                 execArg, mcpResult, resultText, parsed, given>>

\* variant of FormatResponseBegin: ExecuteMCPCall is not awaited
FormatResponseBeginNoAwait == FormatResponseFrom({"executed", "executeHttp"})

\* await ExecuteMCPCall(...), then FormatResponse
FormatResponseBegin == FormatResponseFrom({"executed"})

\* FormatResponse once the model endpoint answered
FormatResponseResponse ==
  /\ pc = "formatHttp"
  /\ \E o \in HttpOutcomes(FALSE) :
       LET sr == FormatResponse(Client(FALSE, o, "FormatResponse")) IN
       /\ StageSettled(sr, "formatted", <<>>, <<>>, <<>>)
       /\ response' = IF sr.res.tag = "return" THEN sr.res.val ELSE response
       /\ modelCalls' = [modelCalls EXCEPT !["FormatResponse"] =
                           [status |-> "done", outcome |-> o,
                            settled |-> Client(FALSE, o, "FormatResponse")]]
  /\ inflight' = <<>>
  /\ UNCHANGED <<apiKey, latestMessage, configKind, mcpConfigs, decision,
                 execArg, mcpResult, formatArg, resultText, parsed, given>>

DirectPre == <<"Direct:start", "Direct:prompt", "Direct:sending">>

\* GenerateDirectResponse up to the fetch inside callOpenAI
GenerateDirectResponseBegin ==
  /\ pc = "direct"
  /\ IF KeyMissing(apiKey)
       THEN LET sr == GenerateDirectResponse(Throw(AuthErrorText)) IN
            /\ StageSettled(sr, "formatted", DirectPre, <<"Formatting">>,
                 <<Ev("invoke", "GenerateDirectResponse"),
                   Ev("call", "GenerateDirectResponse"),
                   Ev("auth", "GenerateDirectResponse")>>)
            /\ response' = IF sr.res.tag = "return" THEN sr.res.val
                           ELSE response
            /\ modelCalls' = [modelCalls EXCEPT !["GenerateDirectResponse"] =
                                [status |-> "authError", outcome |-> NoOutcome,
                                 settled |-> Throw(AuthErrorText)]]
            /\ UNCHANGED inflight
       ELSE /\ Step("directHttp", DirectPre, <<"Formatting">>,
                 <<Ev("invoke", "GenerateDirectResponse"),
                   Ev("call", "GenerateDirectResponse"),
                   Ev("http", "GenerateDirectResponse")>>)
            /\ inflight' = Append(inflight, "GenerateDirectResponse")
            /\ modelCalls' = [modelCalls EXCEPT !["GenerateDirectResponse"] =
                                [status |-> "pending", outcome |-> NoOutcome,
                                 settled |-> Return(JUndefined)]]
            /\ UNCHANGED response
  /\ UNCHANGED <<apiKey, latestMessage, configKind, mcpConfigs, decision,
                 execArg, mcpResult, formatArg, resultText, parsed, given>>

\* GenerateDirectResponse once the model endpoint answered
GenerateDirectResponseResponse ==
  /\ pc = "directHttp"
  /\ \E o \in HttpOutcomes(FALSE) :
       LET sr == GenerateDirectResponse(callOpenAI(FALSE, o)) IN
       /\ StageSettled(sr, "formatted", <<>>, <<>>, <<>>)
       /\ response' = IF sr.res.tag = "return" THEN sr.res.val ELSE response
       /\ modelCalls' = [modelCalls EXCEPT !["GenerateDirectResponse"] =
                           [status |-> "done", outcome |-> o,
                            settled |-> callOpenAI(FALSE, o)]]
  /\ inflight' = <<>>
  /\ UNCHANGED <<apiKey, latestMessage, configKind, mcpConfigs, decision,
                 execArg, mcpResult, formatArg, resultText, parsed, given>>

\* Chatbot logs completion and returns response; processMessage returns it
ChatbotComplete ==
  /\ pc = "formatted"
  /\ IF SinkRaises(<<"Chatbot:complete">>)
       THEN SinkRaised(<<"Chatbot:complete">>, <<>>)
       ELSE Deliver(Return(response), <<"Chatbot:complete">>, <<"Done">>, <<>>)
  /\ UNCHANGED <<apiKey, latestMessage, configKind, mcpConfigs, decision,
                 execArg, mcpResult, formatArg, response, inflight,
                 modelCalls, resultText, parsed, given>>

Next ==
  \/ processMessageCall
  \/ ConfigResponse
  \/ ChatbotStart
  \/ EvaluateQueryBegin
  \/ EvaluateQueryResponse
  \/ ChatbotBranch
  \/ ExecuteMCPCallBegin
  \/ ExecuteMCPCallResponse
  \/ FormatResponseBegin
  \/ FormatResponseResponse
  \/ GenerateDirectResponseBegin
  \/ GenerateDirectResponseResponse
  \/ ChatbotComplete

Spec == Init /\ [][Next]_vars

\* ------------------------------------------------------------ faulty sink
\* the pipeline called with a setLogs that raises on one of the lines Chatbot
\* itself hands over
InitFault ==
  /\ pc = "idle"
  /\ NoRun
  /\ resultText = <<>>
  /\ parsed = Return(JUndefined)
  /\ Alone("faultySink")

SpecFault == InitFault /\ [][Next]_vars

\* ------------------------------------------------------------ two runs
\* two calls of processMessage on one page, each with its own arguments, whose
\* runs overlap: the variables of a run describe the one that executes, other
\* holds the one that waits
InitTwo ==
  /\ pc = "idle"
  /\ NoRun
  /\ resultText = <<>>
  /\ parsed = Return(JUndefined)
  /\ Alone("twoRuns")

\* where a run stands while it is not on the call stack: not called yet,
\* awaiting the answer to a request, or settled
Suspended ==
  {"idle", "config", "evaluateHttp", "chooseHttp", "executeHttp",
   "formatHttp", "directHttp", "done"}

\* variant of Resume: the registry is kept in a variable of the module, which
\* every run reads and writes
ResumeSharedRegistry(r) ==
  /\ pc' = r.pc
  /\ apiKey' = r.apiKey
  /\ latestMessage' = r.latestMessage
  /\ chatHistory' = r.chatHistory
  /\ sinkKind' = r.sinkKind
  /\ self' = r.self
  /\ decision' = r.decision
  /\ execArg' = r.execArg
  /\ mcpResult' = r.mcpResult
  /\ formatArg' = r.formatArg
  /\ response' = r.response
  /\ reply' = r.reply
  /\ outcome' = r.outcome
  /\ raised' = r.raised
  /\ logs' = r.logs
  /\ path' = r.path
  /\ trace' = r.trace
  /\ inflight' = r.inflight
  /\ modelCalls' = r.modelCalls
  /\ UNCHANGED <<configKind, mcpConfigs>>

\* the run r goes on where it stood: its arguments, locals and closures are
\* its own
Resume(r) ==
  /\ pc' = r.pc
  /\ apiKey' = r.apiKey
  /\ latestMessage' = r.latestMessage
  /\ chatHistory' = r.chatHistory
  /\ sinkKind' = r.sinkKind
  /\ self' = r.self
  /\ configKind' = r.configKind
  /\ mcpConfigs' = r.mcpConfigs
  /\ decision' = r.decision
  /\ execArg' = r.execArg
  /\ mcpResult' = r.mcpResult
  /\ formatArg' = r.formatArg
  /\ response' = r.response
  /\ reply' = r.reply
  /\ outcome' = r.outcome
  /\ raised' = r.raised
  /\ logs' = r.logs
  /\ path' = r.path
  /\ trace' = r.trace
  /\ inflight' = r.inflight
  /\ modelCalls' = r.modelCalls

\* the run that executes reached an await on a request (or its end) and the
\* event loop turns to the other run
Switch ==
  /\ scenario \in Overlapping
  /\ pc \in Suspended
  /\ Resume(other)
  /\ other' = Run(self)
  /\ UNCHANGED <<resultText, parsed, scenario, sink, chatUI>>

NextTwo == Next \/ Switch

SpecTwo == InitTwo /\ [][NextTwo]_vars

\* ------------------------------------------------------------ ChatUI
\* the ChatUI component with a stored key: the user types, submits, and the
\* pipeline runs with ChatUI's addLog as its sink (sink is the logs state)
InitUI ==
  /\ pc = "idle"
  /\ NoRun
  /\ resultText = <<>>
  /\ parsed = Return(JUndefined)
  /\ Alone("chatUI")

\* what the user may have typed into the textarea
InputValues ==
  {<<>>, <<WS>>, <<"hello">>, <<WS, "what's the weather in Paris", WS>>}

\* ChatUI renders the chat only once a key is stored (if (!apiKey) return ...)
StoredKey == "sk-test"


\* lines.join(NL)
Join(lines) ==
  IF lines = <<>> THEN <<>>
  ELSE [i \in 1..(2 * Len(lines) - 1) |->
          IF i % 2 = 1 THEN lines[(i + 1) \div 2] ELSE NL]

\* the lines the logs state holds
LogLines(held) == [i \in 1..Len(held) |-> held[i].line]

\* variant of WithMessages: the new messages replace the list
WithMessagesOnly(prev, new) == new

\* setMessages(prev => [...prev, ...new])
WithMessages(prev, new) == prev \o new

\* variant of clearLogs: the logs state is left as it is
clearLogsSkipped == sink

\* clearLogs(): setLogs([])
clearLogs == <<>>

\* variant of IsBlank: the input is tested as it stands
IsBlankUntrimmed(v) == v = <<>>

\* !inputValue.trim()
IsBlank(v) == Trim(v) = <<>>

\* variant of TextareaDisabled: the textarea stays enabled during a run
TextareaNeverDisabled == FALSE

\* <textarea ... disabled={isLoading} />
TextareaDisabled == chatUI.isLoading

\* <button type="submit" disabled={!inputValue.trim() || isLoading}>
ButtonDisabled == IsBlank(chatUI.inputValue) \/ chatUI.isLoading

\* onChange of the textarea
onChange ==
  /\ scenario \in {"chatUI", "chatUICallee"}
  /\ ~TextareaDisabled
  /\ \E v \in InputValues :
       /\ v # chatUI.inputValue
       /\ chatUI' = [chatUI EXCEPT !.inputValue = v, !.handled = "onChange"]
  /\ UNCHANGED <<runVars, resultText, parsed, scenario, sink, other>>

\* handleSubmit up to its await of processMessage, called on Enter in the
\* textarea or on a click on the submit button; the handler is the one of
\* the latest render, whose closure holds that render's logs and messages
handleSubmit ==
  /\ scenario \in {"chatUI", "chatUICallee"}
  /\ ~TextareaDisabled \/ ~ButtonDisabled
  /\ chatUI.submits < MaxSubmits
  /\ IF IsBlank(chatUI.inputValue)
       THEN /\ chatUI' = [chatUI EXCEPT !.handled = "blank"]
            /\ UNCHANGED <<runVars, resultText, parsed, scenario, sink, other>>
       ELSE /\ chatUI' =
                 [messages |-> WithMessages(chatUI.messages,
                                 <<Msg("user", Trim(chatUI.inputValue))>>),
                  inputValue |-> <<>>,
                  isLoading |-> TRUE,
                  renderedLogs |-> sink,
                  renderedMessages |-> chatUI.messages,
                  submits |-> chatUI.submits + 1,
                  handled |-> "submit"]
            /\ sink' = clearLogs
            /\ self' = chatUI.submits + 1
            /\ processMessageInvoke(StoredKey, Trim(chatUI.inputValue),
                                    chatUI.messages, "record")
            /\ UNCHANGED <<resultText, parsed, scenario, other>>

\* variant of LoadingAfter: setIsLoading(false) closes the try block instead
\* of standing in a finally block
LoadingAfterTryOnly(o) == o = "raised"

\* finally { setIsLoading(false) }: isLoading once processMessage settled
\* with outcome o
LoadingAfter(o) == FALSE

\* handleSubmit from the point where processMessage settled
handleSubmitResume ==
  /\ scenario \in {"chatUI", "chatUICallee"}
  /\ chatUI.isLoading
  /\ pc = "done"
  /\ LET systemMessage ==
           IF Len(chatUI.renderedLogs) > 0
             THEN <<Msg("system", Join(LogLines(chatUI.renderedLogs)))>>
             ELSE <<>>
         assistantMessage ==
           IF outcome = "returned" THEN <<Msg("assistant", reply.text)>>
           ELSE <<>>
     IN chatUI' = [chatUI EXCEPT
                     !.messages = WithMessages(chatUI.messages,
                                    systemMessage \o assistantMessage),
                     !.isLoading = LoadingAfter(outcome),
                     !.handled = "resume"]
  /\ UNCHANGED <<runVars, resultText, parsed, scenario, sink, other>>

NextUI ==
  \/ onChange
  \/ handleSubmit
  \/ handleSubmitResume
  \/ ConfigResponse
  \/ ChatbotStart
  \/ EvaluateQueryBegin
  \/ EvaluateQueryResponse
  \/ ChatbotBranch
  \/ ExecuteMCPCallBegin
  \/ ExecuteMCPCallResponse
  \/ FormatResponseBegin
  \/ FormatResponseResponse
  \/ GenerateDirectResponseBegin
  \/ GenerateDirectResponseResponse
  \/ ChatbotComplete

SpecUI == InitUI /\ [][NextUI]_vars

\* ------------------------------------------------------------ ChatUI, any callee
\* handleSubmit around a processMessage of which only the contract is kept: a
\* promise that hands some lines to addLog and is then fulfilled with a text
\* or rejected
InitCallee ==
  /\ pc = "idle"
  /\ NoRun
  /\ resultText = <<>>
  /\ parsed = Return(JUndefined)
  /\ Alone("chatUICallee")

CalleeSettlements ==
  {Return(JStr(<<"answer">>)), Return(JStr(ConfigApology)),
   Throw(<<"Failed to fetch">>)}

CalleeLines == {<<>>, <<"processMessage:loaded", "Chatbot:start">>}

\* the promise of processMessage settles
processMessageSettles ==
  /\ scenario = "chatUICallee"
  /\ pc = "config"
  /\ \E r \in CalleeSettlements, l \in CalleeLines : Deliver(r, l, <<>>, <<>>)
  /\ UNCHANGED <<apiKey, latestMessage, configKind, mcpConfigs, decision,
                 execArg, mcpResult, formatArg, response, inflight,
                 modelCalls, resultText, parsed, given>>

NextCallee ==
  \/ onChange
  \/ handleSubmit
  \/ processMessageSettles
  \/ handleSubmitResume

\* the continuation of an await runs once the promise has settled
SpecCallee ==
  InitCallee /\ [][NextCallee]_vars /\ WF_vars(handleSubmitResume)

\* ------------------------------------------------------------ always-call
\* the pipeline that selects a tool server for every message:
\* processMessage -> Chatbot -> ChooseMCPServer, ExecuteMCPCall, FormatResponse
InitAlways ==
  /\ pc = "idle"
  /\ NoRun
  /\ resultText = <<>>
  /\ parsed = Return(JUndefined)
  /\ Alone("alwaysCall")

\* the lines ChooseMCPServer hands to setLogs before it calls callOpenAI
ChoosePre == <<"Choose:start", "Choose:prompt", "Choose:sending">>

\* ChooseMCPServer up to the fetch inside callOpenAI
ChooseMCPServerBegin ==
  /\ pc = "choose"
  /\ IF KeyMissing(apiKey)
       THEN LET sr == ChooseMCPServer(Throw(AuthErrorText), mcpConfigs) IN
            /\ StageSettled(sr, "chosen", ChoosePre, <<"Choosing">>,
                 <<Ev("invoke", "ChooseMCPServer"),
                   Ev("call", "ChooseMCPServer"),
                   Ev("auth", "ChooseMCPServer")>>)
            /\ decision' = IF sr.res.tag = "return" THEN sr.res.val ELSE decision
            /\ modelCalls' = [modelCalls EXCEPT !["ChooseMCPServer"] =
                                [status |-> "authError", outcome |-> NoOutcome,
                                 settled |-> Throw(AuthErrorText)]]
            /\ UNCHANGED inflight
       ELSE /\ Step("chooseHttp", ChoosePre, <<"Choosing">>,
                 <<Ev("invoke", "ChooseMCPServer"),
                   Ev("call", "ChooseMCPServer"),
                   Ev("http", "ChooseMCPServer")>>)
            /\ inflight' = Append(inflight, "ChooseMCPServer")
            /\ modelCalls' = [modelCalls EXCEPT !["ChooseMCPServer"] =
                                [status |-> "pending", outcome |-> NoOutcome,
                                 settled |-> Return(JUndefined)]]
            /\ UNCHANGED decision
  /\ UNCHANGED <<apiKey, latestMessage, configKind, mcpConfigs, execArg,
                 mcpResult, formatArg, response, resultText, parsed, given>>

\* ChooseMCPServer once the model endpoint answered
ChooseMCPServerResponse ==
  /\ pc = "chooseHttp"
  /\ \E o \in HttpOutcomes(TRUE) :
       LET cr == callOpenAIAlways(TRUE, o, "ChooseMCPServer")
           sr == ChooseMCPServer(cr, mcpConfigs) IN
       /\ StageSettled(sr, "chosen", <<>>, <<>>, <<>>)
       /\ decision' = IF sr.res.tag = "return" THEN sr.res.val ELSE decision
       /\ modelCalls' = [modelCalls EXCEPT !["ChooseMCPServer"] =
                           [status |-> "done", outcome |-> o, settled |-> cr]]
  /\ inflight' = <<>>
  /\ UNCHANGED <<apiKey, latestMessage, configKind, mcpConfigs, execArg,
                 mcpResult, formatArg, response, resultText, parsed, given>>

\* Chatbot between ChooseMCPServer and ExecuteMCPCall
ChatbotSelected ==
  /\ pc = "chosen"
  /\ ChatbotLogs("execute",
                 <<"Chatbot:selected", "Chatbot:reasoning", "Chatbot:STEP 2">>,
                 <<>>)
  /\ UNCHANGED <<apiKey, latestMessage, configKind, mcpConfigs, decision,
                 execArg, mcpResult, formatArg, response, inflight,
                 modelCalls, resultText, parsed, given>>

NextAlways ==
  \/ processMessageCall
  \/ ConfigResponse
  \/ ChatbotStart
  \/ ChooseMCPServerBegin
  \/ ChooseMCPServerResponse
  \/ ChatbotSelected
  \/ ExecuteMCPCallBegin
  \/ ExecuteMCPCallResponse
  \/ FormatResponseBegin
  \/ FormatResponseResponse
  \/ ChatbotComplete

SpecAlways == InitAlways /\ [][NextAlways]_vars

\* ------------------------------------------------------------ two pipelines
\* the decide-then-call pipeline (run 1) and the always-call pipeline (run 2)
\* side by side, each called once
InitBoth ==
  /\ pc = "idle"
  /\ NoRun
  /\ resultText = <<>>
  /\ parsed = Return(JUndefined)
  /\ Alone("twoPipelines")

NextBoth ==
  \/ Next
  \/ ChooseMCPServerBegin
  \/ ChooseMCPServerResponse
  \/ ChatbotSelected
  \/ Switch

SpecBoth == InitBoth /\ [][NextBoth]_vars

\* ------------------------------------------------------------ parsing alone
\* the structured-output parsing of callOpenAI applied to every response text
\* of up to MaxTextLen tokens, and to texts around the cap on the raw prefix
ParseTokens == {WS, FENCE, JSONLABEL, LB, RB, PROSE, "pWeather"}

LongTexts ==
  { <<LB>> \o [i \in 1..n |-> PROSE] \o <<RB>> :
      n \in (RawPrefixCap - 3)..(RawPrefixCap + 1) }

ParseTexts ==
  UNION {[1..n -> ParseTokens] : n \in 0..MaxTextLen} \cup LongTexts
    \cup {<<"null">>}

InitParse ==
  /\ pc = "parse"
  /\ NoRun
  /\ resultText \in ParseTexts
  /\ parsed = Return(JUndefined)
  /\ Alone("pipeline")

\* if (useJson) { ... }: the parsing of resultText settles
ParseResponse ==
  /\ pc = "parse"
  /\ pc' = "parsed"
  /\ parsed' = ParseStructured(resultText)
  /\ UNCHANGED <<apiKey, latestMessage, configKind, mcpConfigs, decision,
                 execArg, mcpResult, formatArg, response, reply, outcome,
                 raised, logs, path, trace, inflight, modelCalls, resultText,
                 sink, given>>

NextParse == ParseResponse

SpecParse == InitParse /\ [][NextParse]_vars


\* ------------------------------------------------------------ properties
HasEv(e, st) == \E i \in DOMAIN trace : trace[i] = Ev(e, st)

StartsWith(t, tok) == Len(t) > 0 /\ t[1] = tok

\* the failures of the endpoint the claims name: transport, non-success status
TransportOrStatus == {"transport", "status", "statusNoMsg"}

\* the structured response text yields no value by any parsing strategy
Unparsable(t) ==
  /\ JSONparse(t).tag = "throw"
  /\ ~ ( /\ JsonMatch(t).matched
         /\ JsonMatch(t).group # <<>>
         /\ JSONparse(Trim(JsonMatch(t).group)).tag = "return" )

\* C1: processMessage never raises to its caller: whatever the configuration
\* fetch, the credential and the model calls do, the run ends by returning a
\* text reply.
C1_NeverRaises ==
  /\ outcome # "raised"
  /\ pc = "done" => (outcome = "returned" /\ reply.type = "string")

\* a run that returned although the decision call and the formatting call
\* both failed at the endpoint
C1_Witness ==
  /\ pc = "done"
  /\ outcome = "returned"
  /\ modelCalls["EvaluateQuery"].outcome.kind = "transport"
  /\ modelCalls["GenerateDirectResponse"].outcome.kind = "status"

\* C2: every value EvaluateQuery returns with needsMCP true carries a
\* serverName that is a key of the registry it was called with.
C2_DecisionToolRegistered ==
  (decision.type # "undefined" /\ Truthy(decision.needsMCP))
    => decision.serverName \in OwnKeys(mcpConfigs)

\* C3: when the decision names a server that is not a key of the (non-empty)
\* registry, ExecuteMCPCall runs with the first registered server and does not
\* report the server as missing.
C3_UnknownToolSubstituted ==
  ( /\ execArg # UNDEF
    /\ decision.serverName \notin OwnKeys(mcpConfigs)
    /\ mcpConfigs # <<>> )
    => /\ execArg = ObjectKeys(mcpConfigs)[1]
       /\ ~ (mcpResult.type = "string"
             /\ StartsWith(mcpResult.text, NotFoundPrefix))

\* C4: when the request to the model endpoint fails in transport or comes back
\* with a non-success status, callOpenAI raises an error carrying the upstream
\* text to its caller, for structured and plain requests alike.
C4_ClientRaisesOnHttpFailure ==
  \A st \in Stages :
    ( /\ modelCalls[st].status = "done"
      /\ modelCalls[st].outcome.kind \in TransportOrStatus )
      => /\ modelCalls[st].settled.tag = "throw"
         /\ modelCalls[st].settled.err = HttpErrorText(modelCalls[st].outcome)

\* C5: the missing-credential error is raised exactly when a model call is
\* attempted without a credential, before any HTTP request; nothing earlier
\* in the run checks the credential or fails because it is absent.
C5_AuthRaisedOnlyAtModelCall ==
  /\ \A i \in DOMAIN trace :
       trace[i].ev = "auth"
         => /\ apiKey = "null"
            /\ i > 1
            /\ trace[i - 1] = Ev("call", trace[i].stage)
  /\ \A i \in DOMAIN trace :
       (trace[i].ev = "call" /\ apiKey = "null")
         => /\ i < Len(trace)
            /\ trace[i + 1] = Ev("auth", trace[i].stage)
  /\ apiKey = "null" => \A i \in DOMAIN trace : trace[i].ev # "http"
  /\ \A st \in Stages :
       modelCalls[st].status = "authError"
         <=> (apiKey = "null" /\ HasEv("call", st))
  /\ pc \in {"config", "chatbot", "evaluate"}
       => (outcome = "pending" /\ trace = <<>>)
  /\ pc = "evaluate"
       => logs = <<"processMessage:loaded", "Chatbot:start", "Chatbot:message",
                   "Chatbot:STEP 1">>
  /\ (pc = "done" /\ path = <<>>) => trace = <<>>

\* a run without credential that got as far as the decision call and had the
\* error raised there
C5_Witness ==
  /\ apiKey = "null"
  /\ pc = "decided"
  /\ trace = <<Ev("invoke", "EvaluateQuery"), Ev("call", "EvaluateQuery"),
               Ev("auth", "EvaluateQuery")>>

C7_UnknownToolReported ==
  (execArg # UNDEF /\ execArg \notin OwnKeys(mcpConfigs))
    => /\ ~HasEv("call", "ExecuteMCPCall")
       /\ mcpResult = JStr(<<NotFoundPrefix, execArg>>)

\* C8: whenever the model call of ExecuteMCPCall (run for a registered server)
\* fails (no credential, transport failure, non-success status),
\* ExecuteMCPCall returns a text that starts with the execution-error prefix.
C8_ExecutionFailurePrefixed ==
  LET mc == modelCalls["ExecuteMCPCall"] IN
  ( /\ execArg \in OwnKeys(mcpConfigs)
    /\ \/ mc.status = "authError"
       \/ (mc.status = "done" /\ mc.outcome.kind \in TransportOrStatus) )
    => /\ mcpResult.type = "string"
       /\ StartsWith(mcpResult.text, ExecutionErrorPrefix)

\* C9: when the model call of the formatting stage fails for any reason, the
\* stage returns its one fixed apology text, the same for every kind of failure.
C9_FormattingFailureFixedApology ==
  LET failed(st) ==
        \/ modelCalls[st].status = "authError"
        \/ /\ modelCalls[st].status = "done"
           /\ modelCalls[st].outcome.kind \in TransportOrStatus
  IN /\ failed("FormatResponse") => response = JStr(FormatApology)
     /\ failed("GenerateDirectResponse") => response = JStr(DirectApology)

\* C10: ExecuteMCPCall is invoked in a run if and only if the decision has
\* needsMCP true; without it the run goes Start, Deciding, Formatting, Done,
\* with it Start, Deciding, Executing, Formatting, Done.
C10_ToolStageIffNeedsTool ==
  (pc = "done" /\ decision.type # "undefined")
    => /\ HasEv("invoke", "ExecuteMCPCall") <=> decision.needsMCP = "true"
       /\ decision.needsMCP = "true"
            => path = <<"Start", "Deciding", "Executing", "Formatting", "Done">>
       /\ decision.needsMCP # "true"
            => path = <<"Start", "Deciding", "Formatting", "Done">>

CountEv(e, st) == Cardinality({i \in DOMAIN trace : trace[i] = Ev(e, st)})

ConfigLoaded == configKind \notin ConfigFailKinds \cup {"none"}

ToolPath == <<"Start", "Deciding", "Executing", "Formatting", "Done">>
DirectPath == <<"Start", "Deciding", "Formatting", "Done">>

C12_EmptyRegistryNeverExecutes ==
  (configKind = "ok" /\ mcpConfigs = <<>>)
    => /\ ~HasEv("invoke", "ExecuteMCPCall")
       /\ pc = "done" => path = DirectPath

\* C13: on the tool path ExecuteMCPCall is invoked with the serverName of the
\* decision, it has settled before FormatResponse is invoked, and
\* FormatResponse is handed as mcpResult the text ExecuteMCPCall returned.
C13_ToolResultHandedToFormatter ==
  /\ HasEv("invoke", "ExecuteMCPCall")
       => /\ execArg = decision.serverName
          /\ execArg # UNDEF
  /\ pc \in {"execute", "executeHttp"} => ~HasEv("invoke", "FormatResponse")
  /\ HasEv("invoke", "FormatResponse")
       => /\ HasEv("invoke", "ExecuteMCPCall")
          /\ modelCalls["ExecuteMCPCall"].status # "pending"
          /\ \A i \in DOMAIN inflight : inflight[i] # "ExecuteMCPCall"
          /\ \A i, j \in DOMAIN trace :
               (trace[i].stage = "ExecuteMCPCall"
                  /\ trace[j].stage = "FormatResponse") => i < j
          /\ mcpResult.type = "string"
          /\ formatArg = mcpResult

\* FormatResponse has been invoked with the answer the endpoint gave to the
\* request of ExecuteMCPCall for the registered server "7"
C13_Witness ==
  /\ pc = "formatHttp"
  /\ execArg = "7"
  /\ decision.serverName = "7"
  /\ modelCalls["ExecuteMCPCall"].outcome.kind = "ok"
  /\ formatArg = JStr(<<"answer">>)

\* C14: a run without credential whose configuration loaded ends by returning
\* a non-empty text, on the direct path, without invoking ExecuteMCPCall and
\* without one HTTP request to the model endpoint.
C14_NoCredentialDirectNoHttp ==
  (apiKey = "null" /\ ConfigLoaded)
    => /\ outcome # "raised"
       /\ \A i \in DOMAIN trace : trace[i].ev # "http"
       /\ ~HasEv("invoke", "ExecuteMCPCall")
       /\ pc = "done"
            => /\ outcome = "returned"
               /\ path = DirectPath
               /\ reply.type = "string"
               /\ reply.text # <<>>
               /\ \A i \in DOMAIN logs : logs[i] # "Chatbot:ERROR"

\* a finished run without credential, on a non-empty registry, in which both
\* the decision stage and the direct-answer stage had the credential refused
C14_Witness ==
  /\ pc = "done"
  /\ apiKey = "null"
  /\ mcpConfigs # <<>>
  /\ modelCalls["EvaluateQuery"].status = "authError"
  /\ modelCalls["GenerateDirectResponse"].status = "authError"
  /\ reply = JStr(DirectApology)

\* C18: when the model answers the decision request with needsMCP true and no
\* serverName and the registry is not empty, EvaluateQuery returns that answer
\* with serverName set to the first server of the configuration document.
C18_FirstRegisteredSubstituted ==
  LET mc == modelCalls["EvaluateQuery"] IN
  ( /\ mc.status = "done"
    /\ mc.settled.tag = "return"
    /\ mc.settled.val.type = "object"
    /\ mc.settled.val.needsMCP = "true"
    /\ mc.settled.val.serverName = UNDEF
    /\ mcpConfigs # <<>> )
    => decision = [mc.settled.val EXCEPT !.serverName = mcpConfigs[1]]

\* the outcomes of the configuration fetch the claims call a failure: the
\* fetch fails, the status is not a success, the document is malformed
ConfigFailures == {"network", "notOK", "badJson", "noServers", "wrongType"}

\* C19: when the configuration fetch fails, comes back with a non-success
\* status or yields a malformed document, processMessage returns the fixed
\* configuration apology and no stage is invoked and no model call made; no
\* other run ends before EvaluateQuery is invoked.
C19_ConfigFailureShortCircuits ==
  /\ configKind \in ConfigFailures
       => /\ trace = <<>>
          /\ pc = "done" => reply = JStr(ConfigApology)
  /\ (pc = "done" /\ ~HasEv("invoke", "EvaluateQuery"))
       => configKind \in ConfigFailures

HttpCount == Cardinality({i \in DOMAIN trace : trace[i].ev = "http"})

\* C20: no request to the model endpoint is repeated: a stage is invoked at
\* most once in a run and issues at most one HTTP request, a run issues at most
\* three requests when ExecuteMCPCall ran and at most two otherwise, and after
\* a failed request the stage has returned its fallback value without a further
\* request.
C20_NoRetry ==
  /\ \A st \in Stages :
       /\ CountEv("invoke", st) <= 1
       /\ CountEv("call", st) <= CountEv("invoke", st)
       /\ CountEv("http", st) <= CountEv("call", st)
       /\ modelCalls[st].status = "done"
            => /\ CountEv("http", st) = 1
               /\ \A i \in DOMAIN inflight : inflight[i] # st
  /\ HttpCount <= IF HasEv("invoke", "ExecuteMCPCall") THEN 3 ELSE 2
  /\ Len(inflight) <= 1
  /\ LET failed(st) == /\ modelCalls[st].status = "done"
                        /\ modelCalls[st].outcome.kind \in HttpFailKinds
     IN /\ failed("EvaluateQuery")
             => (decision.type = "object" /\ decision.needsMCP = "false")
        /\ failed("ExecuteMCPCall") => mcpResult.type = "string"
        /\ failed("FormatResponse") => response.type = "string"
        /\ failed("GenerateDirectResponse") => response.type = "string"

\* a finished tool-path run of three requests, the second of which failed
C20_Witness ==
  /\ pc = "done"
  /\ path = ToolPath
  /\ HttpCount = 3
  /\ modelCalls["ExecuteMCPCall"].outcome.kind = "transport"
  /\ modelCalls["FormatResponse"].outcome.kind = "ok"

\* the value a stage handed back to Chatbot, once it has
Returned(st) ==
  CASE st = "EvaluateQuery"  -> decision.type # "undefined"
    [] st = "ExecuteMCPCall" -> mcpResult.type # "undefined"
    [] OTHER                 -> response.type # "undefined"

\* C21: the stages of a run execute one after the other: the events of a stage
\* are not interleaved with those of another, a request to the model endpoint
\* is issued only when every stage invoked before has returned, and at most
\* one request of the run is outstanding.
C21_StagesSequential ==
  /\ Len(inflight) <= 1
  /\ \A i, j, k \in DOMAIN trace :
       (i < j /\ j < k /\ trace[i].stage = trace[k].stage)
         => trace[j].stage = trace[i].stage
  /\ \A i \in DOMAIN inflight :
       \A st \in Stages \ {inflight[i]} :
         HasEv("invoke", st)
           => /\ Returned(st)
              /\ modelCalls[st].status # "pending"
  /\ \A i, j \in DOMAIN trace :
       /\ (trace[i].stage = "EvaluateQuery"
             /\ trace[j].stage # "EvaluateQuery") => i < j
       /\ (trace[i].stage = "ExecuteMCPCall"
             /\ trace[j].stage = "FormatResponse") => i < j

\* the request of FormatResponse is outstanding after the requests of
\* EvaluateQuery and ExecuteMCPCall were answered
C21_Witness ==
  /\ inflight = <<"FormatResponse">>
  /\ modelCalls["EvaluateQuery"].status = "done"
  /\ modelCalls["ExecuteMCPCall"].status = "done"
  /\ CountEv("http", "ExecuteMCPCall") = 1

\* the lines each orchestrator state hands to the sink
StartLines == {"Chatbot:start", "Chatbot:message"}
EvaluateLines ==
  {"Evaluate:start", "Evaluate:prompt", "Evaluate:sending",
   "Evaluate:received", "Evaluate:complete", "Evaluate:reasoning",
   "Evaluate:default", "Evaluate:error"}
ExecuteLines ==
  {"Execute:start", "Execute:notFound", "Execute:context", "Execute:config",
   "Execute:query", "Execute:prompt", "Execute:sending", "Execute:received",
   "Execute:snippet", "Execute:error"}
FormatLines ==
  {"Format:start", "Format:prompt", "Format:sending", "Format:received",
   "Format:snippet", "Format:error"}
DirectLines ==
  {"Direct:start", "Direct:prompt", "Direct:sending", "Direct:received",
   "Direct:snippet", "Direct:error"}
DecidingLines ==
  {"Chatbot:STEP 1", "Chatbot:selected", "Chatbot:direct",
   "Chatbot:reasoning"} \cup EvaluateLines
DoneLines == {"Chatbot:complete", "Chatbot:ERROR"}

StageLines(st) ==
  CASE st = "EvaluateQuery"  -> EvaluateLines
    [] st = "ExecuteMCPCall" -> ExecuteLines
    [] st = "FormatResponse" -> FormatLines
    [] OTHER                 -> DirectLines

\* the position, in the order of traversal, of the state a line belongs to
\* (0 for the lines of processMessage); the STEP 2 line announces
\* ExecuteMCPCall on one branch and GenerateDirectResponse on the other
LineRank(l, selected) ==
  CASE l \in StartLines -> 1
    [] l \in DecidingLines -> 2
    [] l = "Chatbot:STEP 2" -> IF selected THEN 3 ELSE 4
    [] l \in ExecuteLines -> 3
    [] l \in FormatLines \cup DirectLines \cup {"Chatbot:STEP 3"} -> 4
    [] l \in DoneLines -> 5
    [] OTHER -> 0

StateRank(st) ==
  CASE st = "Start" -> 1 [] st = "Deciding" -> 2 [] st = "Executing" -> 3
    [] st = "Formatting" -> 4 [] st = "Done" -> 5

\* C25: every orchestrator state a run has entered has handed at least one
\* line to the sink, the lines are in the order in which the states are
\* traversed, and while the request of a stage is outstanding the first line
\* of that stage has already been handed over.
C25_LogsFollowStates ==
  LET selected == \E i \in DOMAIN logs : logs[i] = "Chatbot:selected"
      rank(i) == LineRank(logs[i], selected)
  IN /\ \A i \in DOMAIN path :
          \E j \in DOMAIN logs : rank(j) = StateRank(path[i])
     /\ \A i, j \in DOMAIN logs : i < j => rank(i) <= rank(j)
     /\ \A i \in DOMAIN trace :
          trace[i].ev \in {"http", "auth"}
            => \E j \in DOMAIN logs : logs[j] \in StageLines(trace[i].stage)
     /\ \A i \in DOMAIN inflight :
          \E j \in DOMAIN logs : logs[j] \in StageLines(inflight[i])

\* the request of ExecuteMCPCall is outstanding and the lines of Start,
\* Deciding and Executing are in the sink
C25_Witness ==
  /\ pc = "executeHttp"
  /\ path = <<"Start", "Deciding", "Executing">>
  /\ logs[Len(logs)] = "Execute:sending"
  /\ \E i \in DOMAIN logs : logs[i] = "Chatbot:selected"

\* C29: every value EvaluateQuery returns is a well-formed decision: an
\* object whose needsMCP is a boolean and whose reasoning is a text, whatever
\* value the parsing of the model's answer produced.
C29_DecisionWellFormed ==
  decision.type # "undefined"
    => /\ decision.type = "object"
       /\ decision.needsMCP \in {"true", "false"}
       /\ decision.reasoning # NoText

SinkFailed == \E i \in DOMAIN logs : logs[i] = sinkKind

\* C22: when a failure escapes at an orchestrator state (here: the sink raises
\* on a line Chatbot hands it at Start, Deciding, Executing or Formatting), the
\* run ends with Chatbot's catch having logged it and with the one apology that
\* carries the failure's description as the reply
C22_EscapedFailureApologised ==
  (pc = "done" /\ SinkFailed) =>
     /\ outcome = "returned"
     /\ \E i \in DOMAIN logs : logs[i] = "Chatbot:ERROR"
     /\ reply = JStr(<<ChatbotApologyPrefix>> \o SinkError)

\* ---- two overlapping runs (SpecTwo)
\* the run that executes and the run that waits
Active == Run(self)

Answered(r, st) == r.modelCalls[st].status = "done"

\* the model stub answers the two runs alike wherever both asked
SameStub ==
  /\ configKind = other.configKind
  /\ mcpConfigs = other.mcpConfigs
  /\ \A st \in Stages :
        (Answered(Active, st) /\ Answered(other, st)) =>
           modelCalls[st].outcome = other.modelCalls[st].outcome

SameCall ==
  /\ apiKey = other.apiKey
  /\ latestMessage = other.latestMessage
  /\ chatHistory = other.chatHistory

C24_SinkObservational ==
  ( /\ pc = "done"
    /\ other.pc = "done"
    /\ sinkKind # other.sinkKind
    /\ SameCall
    /\ SameStub )
  => /\ path = other.path
     /\ trace = other.trace
     /\ reply = other.reply
     /\ outcome = other.outcome

\* a recording run and a discarding run both went through the tool stage
C24_Witness ==
  /\ pc = "done"
  /\ other.pc = "done"
  /\ sinkKind = "record"
  /\ other.sinkKind = "discard"
  /\ SameCall
  /\ SameStub
  /\ path = ToolPath
  /\ sink # <<>>
  /\ \A i \in DOMAIN sink : sink[i].run = self

\* how callOpenAI settled towards the stage st of the run r
Settled(r, st, useJson) ==
  IF ~Truthy(r.apiKey) THEN Throw(AuthErrorText)
  ELSE callOpenAI(useJson, r.modelCalls[st].outcome)

\* the states a run enters and the reply it returns when it is the only run,
\* given what it was handed and what the configuration fetch and the model
\* answered: Chatbot's composition of the stages
AloneResult(r) ==
  IF r.configKind \in ConfigFailKinds
    THEN [path |-> <<>>, reply |-> JStr(ConfigApology)]
  ELSE
    LET ev == EvaluateQuery(Settled(r, "EvaluateQuery", TRUE), r.mcpConfigs).res
        fr == FormatResponse(Settled(r, "FormatResponse", FALSE)).res
        gd == GenerateDirectResponse(
                Settled(r, "GenerateDirectResponse", FALSE)).res
    IN
    IF ev.tag = "throw"
      THEN [path |-> <<"Start", "Deciding", "Done">>,
            reply |-> Settle(ev).res.val]
    ELSE IF Truthy(ev.val.needsMCP) /\ Truthy(ev.val.serverName)
      THEN [path |-> ToolPath, reply |-> Settle(fr).res.val]
      ELSE [path |-> DirectPath, reply |-> Settle(gd).res.val]

\* the lines the shared sink holds from the run id, in the sink's order
LinesOf(id) ==
  LET FromRun(e) == e.run = id
      own == SelectSeq(sink, FromRun)
  IN  [i \in 1..Len(own) |-> own[i].line]

\* C28: of two overlapping runs on one shared sink, each enters the states
\* and returns the reply it would alone, under every interleaving; the sink
\* holds each recording run's lines in that run's order, so that only the
\* order between lines of different runs depends on the interleaving
C28_RunsIndependent ==
  \A r \in {Active, other} :
    /\ r.pc = "done" =>
         /\ r.outcome = "returned"
         /\ r.path = AloneResult(r).path
         /\ r.reply = AloneResult(r).reply
    /\ LinesOf(r.self) = IF r.sinkKind = "record" THEN r.logs ELSE <<>>

\* both runs recorded, took different branches, and their lines alternate in
\* the sink
C28_Witness ==
  /\ pc = "done"
  /\ other.pc = "done"
  /\ sinkKind = "record"
  /\ other.sinkKind = "record"
  /\ path = ToolPath
  /\ other.path = DirectPath
  /\ reply # other.reply
  /\ \E i, j, k \in DOMAIN sink :
        /\ i < j /\ j < k
        /\ sink[i].run = self
        /\ sink[j].run = other.self
        /\ sink[k].run = self

\* ---- ChatUI around the pipeline (SpecUI)
IsPrefix(a, b) == Len(a) <= Len(b) /\ SubSeq(b, 1, Len(a)) = a

CountRole(role, msgs) ==
  Cardinality({i \in DOMAIN msgs : msgs[i].role = role})

\* the step is the part of handleSubmit that starts a run
SubmitStep == chatUI'.submits = chatUI.submits + 1

\* C26: a submit that starts a run leaves the logs state empty, and every
\* other step leaves it as it was or appends to it; at no time does it
\* hold a line of a run before the latest submit
C26_LogsClearedThenAppended ==
  [][ \/ /\ chatUI'.submits = chatUI.submits + 1
         /\ sink' = <<>>
      \/ /\ chatUI'.submits = chatUI.submits
         /\ IsPrefix(sink, sink')
         /\ \A i \in DOMAIN sink' : sink'[i].run = chatUI'.submits ]_vars

\* the second run is under way: the first run's lines were there when the
\* form was submitted again, and the logs state now holds lines of the second
\* run only
C26_Witness ==
  /\ scenario = "chatUI"
  /\ chatUI.submits = 2
  /\ chatUI.renderedLogs # <<>>
  /\ \A i \in DOMAIN chatUI.renderedLogs : chatUI.renderedLogs[i].run = 1
  /\ Len(sink) > 3
  /\ \A i \in DOMAIN sink : sink[i].run = 2

\* C27: every step leaves the messages state as it was or appends to it, and
\* the array a run was handed as chatHistory stays as it was at the call for
\* as long as the run lasts
C27_HistoryAppendOnly ==
  [][ /\ IsPrefix(chatUI.messages, chatUI'.messages)
      /\ chatUI'.submits = chatUI.submits => chatHistory' = chatHistory
      /\ chatHistory' = chatUI'.renderedMessages
      /\ IsPrefix(chatHistory', chatUI'.messages) ]_vars

\* two runs were completed: the second was handed the greeting, the first
\* user message and the first reply, and the list has grown since
C27_Witness ==
  /\ scenario = "chatUI"
  /\ chatUI.submits = 2
  /\ ~chatUI.isLoading
  /\ Len(chatHistory) >= 3
  /\ chatHistory[1] = Greeting
  /\ Len(chatUI.messages) >= Len(chatHistory) + 2

\* C30: once a submit has been answered, a run that handed at least one line
\* to addLog has its reply preceded in the list by a system message whose
\* content is exactly the lines of that run, in order
C30_SystemMessageCarriesRunLogs ==
  (scenario = "chatUI" /\ chatUI.submits >= 1 /\ ~chatUI.isLoading
     /\ logs # <<>>)
  => LET n == Len(chatUI.messages) IN
     /\ n >= 2
     /\ chatUI.messages[n - 1] = Msg("system", Join(logs))
     /\ chatUI.messages[n] = Msg("assistant", reply.text)

\* the step is a run of handleSubmit up to its return or its await
SubmitHandlerStep ==
  /\ chatUI'.handled \in {"submit", "blank"}
  /\ chatUI'.handled # chatUI.handled

\* C32: a run of handleSubmit on an input that is empty or only whitespace
\* leaves the message list, the logs state, the input value and isLoading as
\* they were and starts no run of processMessage
C32_BlankSubmitChangesNothing ==
  [][ (SubmitHandlerStep /\ Trim(chatUI.inputValue) = <<>>) =>
        /\ chatUI'.messages = chatUI.messages
        /\ chatUI'.inputValue = chatUI.inputValue
        /\ chatUI'.isLoading = chatUI.isLoading
        /\ chatUI'.submits = chatUI.submits
        /\ sink' = sink
        /\ UNCHANGED runVars ]_vars

\* the form was submitted with only whitespace typed in, after a first run
\* whose lines the logs state still holds
C32_Witness ==
  /\ scenario = "chatUI"
  /\ chatUI.handled = "blank"
  /\ chatUI.inputValue = <<WS>>
  /\ chatUI.submits = 1
  /\ ~chatUI.isLoading
  /\ sink # <<>>
  /\ pc = "done"

\* the user and assistant messages of the list, in order
Dialogue ==
  LET Spoken(m) == m.role \in {"user", "assistant"}
  IN  SelectSeq(chatUI.messages, Spoken)

\* the runs started from ChatUI that have not been answered yet
Unanswered ==
  CountRole("user", chatUI.messages)
    - (CountRole("assistant", chatUI.messages) - 1)

\* C33: a run of processMessage is started only while isLoading is false and
\* no earlier run is pending; at most one run is unanswered, exactly when
\* isLoading is true; and after the greeting the user and assistant messages
\* alternate, starting with a user message
C33_OneRunInFlight ==
  /\ [][ SubmitStep => (~chatUI.isLoading /\ pc \in {"idle", "done"}) ]_vars
  /\ [](Unanswered = IF chatUI.isLoading THEN 1 ELSE 0)
  /\ [](\A i \in DOMAIN Dialogue :
          Dialogue[i].role = IF i % 2 = 1 THEN "assistant" ELSE "user")

\* two submits were answered in turn, the second with a system message
C33_Witness ==
  /\ scenario = "chatUI"
  /\ chatUI.submits = 2
  /\ ~chatUI.isLoading
  /\ Len(Dialogue) = 5
  /\ CountRole("system", chatUI.messages) = 1

\* ---- ChatUI around any callee (SpecCallee)
\* the step is the part of handleSubmit that follows the await
SettleStep == chatUI.isLoading /\ chatUI' # chatUI

\* C31: a submit that starts a run appends the user message and nothing else
\* and sets isLoading; the step after the run settled appends one assistant
\* message, the reply, at the end if the run returned and none if it raised,
\* and clears isLoading either way; no other step touches the list or
\* isLoading; and once the run has settled isLoading does become false
C31_OneUserOneAssistantPerSubmit ==
  /\ [][ IF SubmitStep
           THEN /\ ~chatUI.isLoading
                /\ chatUI'.isLoading
                /\ Trim(chatUI.inputValue) # <<>>
                /\ chatUI'.messages =
                     Append(chatUI.messages,
                            Msg("user", Trim(chatUI.inputValue)))
         ELSE IF SettleStep
           THEN /\ pc = "done"
                /\ ~chatUI'.isLoading
                /\ IsPrefix(chatUI.messages, chatUI'.messages)
                /\ CountRole("user", chatUI'.messages)
                     = CountRole("user", chatUI.messages)
                /\ CountRole("assistant", chatUI'.messages)
                     = CountRole("assistant", chatUI.messages)
                       + (IF outcome = "returned" THEN 1 ELSE 0)
                /\ outcome = "returned" =>
                     chatUI'.messages[Len(chatUI'.messages)]
                       = Msg("assistant", reply.text)
           ELSE /\ chatUI'.messages = chatUI.messages
                /\ chatUI'.isLoading = chatUI.isLoading ]_vars
  /\ [](chatUI.submits >= 1 /\ pc # "done" => chatUI.isLoading)
  /\ (chatUI.isLoading /\ pc = "done") ~> ~chatUI.isLoading

\* a first run returned and was answered, a second run raised and the form
\* is usable again
C31_Witness ==
  /\ scenario = "chatUICallee"
  /\ chatUI.submits = 2
  /\ ~chatUI.isLoading
  /\ outcome = "raised"
  /\ CountRole("user", chatUI.messages) = 2
  /\ CountRole("assistant", chatUI.messages) = 2

\* ---- the always-call pipeline (SpecAlways)
\* ChooseMCPServer settled without a selection parsed from a model response:
\* the credential was absent, the request failed, or the response text was
\* unparsable
NoParsableSelection ==
  LET mc == modelCalls["ChooseMCPServer"] IN
  \/ mc.status = "authError"
  \/ /\ mc.status = "done"
     /\ \/ mc.outcome.kind \in HttpFailKinds
        \/ /\ mc.outcome.kind = "ok"
           /\ Unparsable(mc.outcome.content)

\* C35: in the always-call pipeline, whenever ChooseMCPServer cannot obtain a
\* parsable selection from the model (unparsable response text, failed
\* request or absent credential) it returns the first registered server's
\* name, so with a non-empty registry the name ExecuteMCPCall is invoked with
\* on a fallback is a key of the registry.
C35_FallbackIsFirstServer ==
  (NoParsableSelection /\ mcpConfigs # <<>>) =>
    /\ decision.type = "object"
    /\ decision.serverName = ObjectKeys(mcpConfigs)[1]
    /\ HasEv("invoke", "ExecuteMCPCall") => execArg \in OwnKeys(mcpConfigs)

\* ---- the two pipelines side by side (SpecBoth)
DecideRun == IF self = 1 THEN Run(self) ELSE other
AlwaysRun == IF self = 2 THEN Run(self) ELSE other

IsToolStage(e) == e.stage \in {"ExecuteMCPCall", "FormatResponse"}

\* what a run did at the Execute and Format stages, in order
ToolStageEvents(r) == SelectSeq(r.trace, IsToolStage)

\* the run invoked ExecuteMCPCall with a key of its registry
RegisteredToolSelected(r) ==
  /\ \E i \in DOMAIN r.trace : r.trace[i] = Ev("invoke", "ExecuteMCPCall")
  /\ r.execArg \in OwnKeys(r.mcpConfigs)

\* both runs ended, on the same call and the same registry, selected the same
\* registered tool, and the endpoint answered their Execute and Format
\* requests alike
SameToolRun ==
  /\ DecideRun.pc = "done"
  /\ AlwaysRun.pc = "done"
  /\ DecideRun.apiKey = AlwaysRun.apiKey
  /\ DecideRun.latestMessage = AlwaysRun.latestMessage
  /\ DecideRun.mcpConfigs = AlwaysRun.mcpConfigs
  /\ RegisteredToolSelected(DecideRun)
  /\ RegisteredToolSelected(AlwaysRun)
  /\ DecideRun.execArg = AlwaysRun.execArg
  /\ \A st \in {"ExecuteMCPCall", "FormatResponse"} :
       /\ DecideRun.modelCalls[st].status = AlwaysRun.modelCalls[st].status
       /\ DecideRun.modelCalls[st].outcome = AlwaysRun.modelCalls[st].outcome

\* C36: when a registered tool is selected, the decide-then-call pipeline and
\* the always-call pipeline, given the same outcomes of the model requests at
\* the Execute and Format stages (successes and failures alike), go through
\* the same Execute then Format sequence and return the same reply.
C36_SameToolPathSameReply ==
  SameToolRun =>
    /\ ToolStageEvents(DecideRun) = ToolStageEvents(AlwaysRun)
    /\ DecideRun.mcpResult = AlwaysRun.mcpResult
    /\ DecideRun.formatArg = AlwaysRun.formatArg
    /\ DecideRun.outcome = AlwaysRun.outcome
    /\ DecideRun.reply = AlwaysRun.reply

\* ---- the structured-output parsing alone (SpecParse)
NoCandidate == Throw(<<"no match">>)

\* what a strategy yields: the value of JSON.parse on what it extracts
StrategyValue(m) == IF m.matched THEN JSONparse(Trim(m.group)) ELSE NoCandidate

\* the four strategies in the order the claims give them
Strategies(t) ==
  << JSONparse(t), StrategyValue(MatchJsonFence(t)),
     StrategyValue(MatchFence(t)), StrategyValue(MatchBraces(t)) >>

ValidStrategies(t) == {k \in 1..4 : Strategies(t)[k].tag = "return"}

SentinelHeads ==
  {"Fallback due to JSON parsing error. Raw response: ",
   "Fallback due to JSON parsing error. No JSON pattern found."}

IsSentinel(v) ==
  /\ v.type = "object"
  /\ v.reasoning # <<>>
  /\ v.reasoning[1] \in SentinelHeads

\* s occurs in r as a contiguous run of tokens
Contains(r, s) ==
  \E i \in 1..(Len(r) + 1) :
    /\ i + Len(s) - 1 <= Len(r)
    /\ SubSeq(r, i, i + Len(s) - 1) = s

\* C15: the parsing returns the value of the first of the four strategies
\* (whole text, labelled fence, unlabelled fence, braces) that yields a valid
\* value, and returns the sentinel only when all four yield none.
C15_FirstValidStrategyWins ==
  pc = "parsed"
    => /\ ValidStrategies(resultText) # {}
            => parsed = Strategies(resultText)[Min(ValidStrategies(resultText))]
       /\ (parsed.tag = "return" /\ IsSentinel(parsed.val))
            => ValidStrategies(resultText) = {}

\* C16: for every response text the parsing returns and never raises; what it
\* returns is the sentinel or the value JSON.parse gives for a part of the text.
C16_ParsingNeverRaises ==
  pc = "parsed"
    => /\ parsed.tag = "return"
       /\ \/ /\ IsSentinel(parsed.val)
             /\ parsed.val.needsMCP = "false"
          \/ \E i, j \in 1..Len(resultText) :
               JSONparse(SubSeq(resultText, i, j)) = parsed

\* a fenced text whose content is not JSON has been parsed to the sentinel
C16_Witness ==
  /\ pc = "parsed"
  /\ resultText = <<FENCE, LB, PROSE, RB, FENCE>>
  /\ parsed.tag = "return"
  /\ IsSentinel(parsed.val)

\* C17: whenever the parsing returns the sentinel, the sentinel has needsMCP
\* false and no serverName, and its reasoning contains the first
\* min(RawPrefixCap, length) tokens of the response text and no longer prefix.
C17_SentinelEmbedsRawPrefix ==
  (pc = "parsed" /\ parsed.tag = "return" /\ IsSentinel(parsed.val))
    => /\ parsed.val.needsMCP = "false"
       /\ parsed.val.serverName = UNDEF
       /\ Contains(parsed.val.reasoning,
                   SubSeq(resultText, 1,
                          IF Len(resultText) < RawPrefixCap
                            THEN Len(resultText) ELSE RawPrefixCap))
       /\ Len(resultText) > RawPrefixCap
            => ~Contains(parsed.val.reasoning,
                         SubSeq(resultText, 1, RawPrefixCap + 1))

====
